---- MODULE Spec2Model ----
(***************************************************************************)
(* The intent-provider subsystem of ctx-cli: the ProviderRegistry          *)
(* (providers/registry.ts), the providers it arbitrates among              *)
(* (AntigravityProvider, ClaudeCodeProvider, CursorProvider,               *)
(* AiderProvider) and the file system they read.                           *)
(*                                                                         *)
(* Spec      one registry: register, then detectAndCollect runs, one       *)
(*           awaited provider call per step, over a file system that may   *)
(*           change between the calls.                                     *)
(* FairSpec  Spec with weak fairness on the steps of a running             *)
(*           detectAndCollect (every awaited call returns or throws).      *)
(* ProviderSpec  the providers alone: detect() and collect() called        *)
(*           directly, in any order, over a changing file system.          *)
(***************************************************************************)
EXTENDS Integers, Sequences, FiniteSets, TLC

VARIABLES
    providers,  \* ProviderRegistry.providers: the registered providers, in order
    env,        \* process.env.INTENT_PROVIDER ("" when unset)
    fs,         \* the file system the providers read
    pc,         \* where the running detectAndCollect stands
    mode,       \* "none" | "explicit" | "auto"
    idx,        \* index in providers of the provider being tried (0: none)
    trace,      \* the provider calls of this invocation, in order
    result,     \* what detectAndCollect returned: None (null) or Some(bundle)
    probe,      \* the last call made on a provider directly (ProviderSpec)
    detected,   \* the providers whose last direct detect() returned true
    prompt      \* the context prompt built from result: None until built

vars == <<providers, env, fs, pc, mode, idx, trace, result, probe, detected,
          prompt>>

----------------------------------------------------------------------------
(* Bounds of the model.                                                    *)

MaxProviders == 3

----------------------------------------------------------------------------
(* IntentBundle | null, as a sequence of at most one bundle.               *)

None == << >>

Some(b) == << b >>

IsSome(o) == Len(o) = 1

(* What an awaited call did: returned v, or threw (v then carries no       *)
(* information: FALSE for a call that returns a boolean, None for one that *)
(* returns a bundle).                                                      *)
Ret(v) == [t |-> "ret", v |-> v]

Throw == [t |-> "throw", v |-> None]

ThrowB == [t |-> "throw", v |-> FALSE]

(* Numbers are kept in hundredths: confidence 0.25 is 25.                  *)
Min(a, b) == IF a < b THEN a ELSE b

----------------------------------------------------------------------------
(* Text.  A string is a sequence of tokens: the punctuation the parsers    *)
(* look at is one token per character, any other run of characters is one  *)
(* word token of known length.  A multi-line string is the sequence of its *)
(* lines, as split('\n') gives it: the empty string is one empty line.     *)

WsToks == {" "}

NL == "\n"

CharToks == {" ", "#", "-", "[", "]", "x", "/", ">", "!", ".", ":", ",", NL}

WordLen ==
    ("Add caching layer" :> 17) @@ ("Summary" :> 7) @@ ("summary" :> 7)
    @@ ("Introduce LRU cache" :> 19) @@ ("Trade-offs" :> 10)
    @@ ("Memory usage increases" :> 22) @@ ("Write tests" :> 11)
    @@ ("Add cache" :> 9) @@ ("Long design rationale" :> 1100)
    @@ ("Notes" :> 5) @@ ("Medium sized note" :> 200)
    @@ ("=== Task Status ===" :> 19)
    @@ ("=== Implementation Plan ===" :> 27)
    @@ ("=== Claude Code Session ===" :> 27)
    @@ ("User" :> 4) @@ ("Assistant" :> 9)
    @@ ("decided to" :> 10) @@ ("Decisions" :> 9) @@ ("decisions" :> 9)
    @@ ("User Review Required" :> 20) @@ ("Requirements" :> 12)
    @@ ("Constraints" :> 11) @@ ("Notes on rollout" :> 16)
    @@ ("IMPORTANT" :> 9) @@ ("WARNING" :> 7) @@ ("CAUTION" :> 7)
    @@ ("introduce LRU cache" :> 19) @@ ("add caching layer" :> 17)
    @@ ("choosing" :> 8) @@ ("going with" :> 10) @@ ("however" :> 7)
    @@ ("must" :> 4) @@ ("should" :> 6)
    @@ [w \in {"Use module 01", "Use module 02", "Use module 03",
               "Use module 04", "Use module 05", "Use module 06",
               "Use module 07", "Use module 08", "Use module 09",
               "Use module 10", "Use module 11", "Use module 12"} |-> 13]

TokLen(t) == IF t \in CharToks THEN 1 ELSE WordLen[t]

RECURSIVE LineLen(_)
LineLen(line) ==
    IF line = << >> THEN 0 ELSE TokLen(Head(line)) + LineLen(Tail(line))

EmptyText == << << >> >>

(* content.length: the characters of the lines and the '\n' between them.  *)
RECURSIVE TextLen(_)
TextLen(text) ==
    IF Len(text) = 1 THEN LineLen(text[1])
    ELSE LineLen(Head(text)) + 1 + TextLen(Tail(text))

(* !content: the empty string is falsy.                                    *)
IsEmptyText(text) == TextLen(text) = 0

StartsWith(line, prefix) ==
    /\ Len(line) >= Len(prefix)
    /\ SubSeq(line, 1, Len(prefix)) = prefix

RECURSIVE TrimStart(_)
TrimStart(line) ==
    IF line # << >> /\ Head(line) \in WsToks THEN TrimStart(Tail(line)) ELSE line

RECURSIVE TrimEnd(_)
TrimEnd(line) ==
    IF line # << >> /\ line[Len(line)] \in WsToks
    THEN TrimEnd(SubSeq(line, 1, Len(line) - 1))
    ELSE line

Trim(line) == TrimEnd(TrimStart(line))

(* notes.join('\n') of multi-line strings.                                 *)
RECURSIVE JoinLines(_)
JoinLines(parts) ==
    IF parts = << >> THEN EmptyText
    ELSE IF Len(parts) = 1 THEN parts[1]
    ELSE parts[1] \o JoinLines(Tail(parts))


----------------------------------------------------------------------------
(* AntigravityProvider: the Markdown extractors.                           *)

(* The text after "##" and white space, or the empty line when the line    *)
(* does not start with "##" followed by white space (/^##\s+.../).         *)
H2Title(line) ==
    IF StartsWith(line, <<"#", "#">>) /\ Len(line) >= 3 /\ line[3] \in WsToks
    THEN TrimStart(SubSeq(line, 3, Len(line)))
    ELSE << >>

(* Word tokens that start, in any letter case, with the heading's name.    *)
SummaryHeads == {"Summary", "summary"}

DecisionHeads == {"Decisions", "decisions", "User Review Required"}

TradeoffHeads == {"Trade-offs", "Tradeoffs", "tradeoffs"}

ConstraintHeads == {"Requirements", "Constraints", "constraints"}

AlertWords == {"IMPORTANT", "WARNING", "CAUTION"}

MatchesH2(line, heads) == H2Title(line) # << >> /\ Head(H2Title(line)) \in heads

(* line.replace(/^#\s+/, '')                                               *)
StripHeadingMarker(line) ==
    IF StartsWith(line, <<"#">>) /\ Len(line) >= 2 /\ line[2] \in WsToks
    THEN TrimStart(Tail(line))
    ELSE line

(* line.replace(/^>\s*/, '')                                               *)
StripQuoteMarker(line) ==
    IF StartsWith(line, <<">">>) THEN TrimStart(Tail(line)) ELSE line

(* lines.find(line => line.startsWith('# ')): its index, 0 when none.      *)
FirstHeadingIdx(lines) ==
    LET hits == {i \in 1..Len(lines) : StartsWith(lines[i], <<"#", " ">>)}
    IN  IF hits = {} THEN 0 ELSE CHOOSE i \in hits : \A j \in hits : i <= j

RECURSIVE SummaryLoop(_, _, _, _)
SummaryLoop(lines, i, inSummary, goals) ==
    IF i > Len(lines) THEN goals
    ELSE LET line == lines[i] IN
         IF MatchesH2(line, SummaryHeads)
         THEN SummaryLoop(lines, i + 1, TRUE, goals)
         ELSE IF inSummary /\ StartsWith(line, <<"#", "#">>)
         THEN goals
         ELSE IF inSummary /\ Trim(line) # << >> /\ ~StartsWith(line, <<"#">>)
         THEN SummaryLoop(lines, i + 1, inSummary, Append(goals, Trim(line)))
         ELSE SummaryLoop(lines, i + 1, inSummary, goals)

AgExtractGoals(planContent) ==
    IF IsEmptyText(planContent) THEN << >>
    ELSE LET h == FirstHeadingIdx(planContent)
             first == IF h = 0 THEN << >>
                      ELSE << StripHeadingMarker(planContent[h]) >>
         IN  SelectSeq(SummaryLoop(planContent, 1, FALSE, first),
                       LAMBDA g : Len(g) > 0)

(* /^[\s-]*\[[\sx/]\]\s+(.+)$/ on one line: the captured group, trimmed,   *)
(* as a sequence of at most one string (no match: empty).                  *)
RECURSIVE SkipDashes(_)
SkipDashes(line) ==
    IF line # << >> /\ Head(line) \in (WsToks \cup {"-"})
    THEN SkipDashes(Tail(line))
    ELSE line

ChecklistMatch(line) ==
    LET r == SkipDashes(line) IN
    IF /\ Len(r) >= 4
       /\ r[1] = "["
       /\ r[2] \in (WsToks \cup {"x", "/"})
       /\ r[3] = "]"
       /\ r[4] \in WsToks
    THEN LET rest == TrimStart(SubSeq(r, 4, Len(r))) IN
         IF rest # << >> THEN << Trim(rest) >>
         ELSE IF Len(r) >= 5 THEN << << >> >>   \* \s+ gives one blank back to (.+)
         ELSE << >>
    ELSE << >>

RECURSIVE AgTasksLoop(_, _, _)
AgTasksLoop(lines, i, tasks) ==
    IF i > Len(lines) THEN tasks
    ELSE AgTasksLoop(lines, i + 1, tasks \o ChecklistMatch(lines[i]))

AgExtractTasks(taskContent) ==
    IF IsEmptyText(taskContent) THEN << >> ELSE AgTasksLoop(taskContent, 1, << >>)

RECURSIVE DecisionsLoop(_, _, _, _)
DecisionsLoop(lines, i, inDecisions, decisions) ==
    IF i > Len(lines) THEN decisions
    ELSE LET line == lines[i] IN
         IF MatchesH2(line, DecisionHeads)
         THEN DecisionsLoop(lines, i + 1, TRUE, decisions)
         ELSE IF inDecisions /\ StartsWith(line, <<"#", "#">>)
         THEN decisions
         ELSE IF /\ inDecisions
                 /\ Trim(line) # << >>
                 /\ ~StartsWith(line, <<"#">>)
                 /\ ~StartsWith(line, <<">">>)
         THEN DecisionsLoop(lines, i + 1, inDecisions, Append(decisions, Trim(line)))
         ELSE DecisionsLoop(lines, i + 1, inDecisions, decisions)

AgExtractDecisions(planContent) ==
    IF IsEmptyText(planContent) THEN << >>
    ELSE DecisionsLoop(planContent, 1, FALSE, << >>)

(* />\s*\[!(IMPORTANT|WARNING|CAUTION)\]/ somewhere in the line.           *)
HasAlert(line) ==
    \E j \in 1..Len(line) :
        /\ line[j] = ">"
        /\ LET rest == TrimStart(SubSeq(line, j + 1, Len(line))) IN
           /\ Len(rest) >= 4
           /\ rest[1] = "["
           /\ rest[2] = "!"
           /\ rest[3] \in AlertWords
           /\ rest[4] = "]"

(* lines.indexOf(line): the first index holding an equal line.             *)
IndexOf(lines, line) ==
    CHOOSE i \in 1..Len(lines) :
        lines[i] = line /\ \A j \in 1..(i - 1) : lines[j] # line

AlertContent(lines, line) ==
    LET nextLineIdx == IndexOf(lines, line) + 1 IN
    IF HasAlert(line) /\ nextLineIdx <= Len(lines)
    THEN LET alertContent == Trim(StripQuoteMarker(lines[nextLineIdx])) IN
         IF alertContent # << >> THEN << alertContent >> ELSE << >>
    ELSE << >>

RECURSIVE TradeoffsLoop(_, _, _, _)
TradeoffsLoop(lines, i, inTradeoffs, tradeoffs) ==
    IF i > Len(lines) THEN tradeoffs
    ELSE LET line == lines[i] IN
         IF MatchesH2(line, TradeoffHeads)
         THEN TradeoffsLoop(lines, i + 1, TRUE, tradeoffs)
         ELSE IF inTradeoffs /\ StartsWith(line, <<"#", "#">>)
         THEN tradeoffs
         ELSE LET sect == IF /\ inTradeoffs
                             /\ Trim(line) # << >>
                             /\ ~StartsWith(line, <<"#">>)
                          THEN << Trim(line) >> ELSE << >>
              IN  TradeoffsLoop(lines, i + 1, inTradeoffs,
                                tradeoffs \o sect \o AlertContent(lines, line))

AgExtractTradeoffs(planContent) ==
    IF IsEmptyText(planContent) THEN << >>
    ELSE TradeoffsLoop(planContent, 1, FALSE, << >>)

RECURSIVE ConstraintsLoop(_, _, _, _)
ConstraintsLoop(lines, i, inConstraints, constraints) ==
    IF i > Len(lines) THEN constraints
    ELSE LET line == lines[i] IN
         IF MatchesH2(line, ConstraintHeads)
         THEN ConstraintsLoop(lines, i + 1, TRUE, constraints)
         ELSE IF inConstraints /\ StartsWith(line, <<"#", "#">>)
         THEN constraints
         ELSE IF inConstraints /\ Trim(line) # << >> /\ ~StartsWith(line, <<"#">>)
         THEN ConstraintsLoop(lines, i + 1, inConstraints,
                              Append(constraints, Trim(line)))
         ELSE ConstraintsLoop(lines, i + 1, inConstraints, constraints)

AgExtractConstraints(planContent) ==
    IF IsEmptyText(planContent) THEN << >>
    ELSE ConstraintsLoop(planContent, 1, FALSE, << >>)

AgBuildRawNotes(taskContent, planContent) ==
    JoinLines(
        (IF IsEmptyText(taskContent) THEN << >>
         ELSE << << <<"=== Task Status ===">> >>, taskContent >>)
        \o
        (IF IsEmptyText(planContent) THEN << >>
         ELSE << << << >>, <<"=== Implementation Plan ===">> >>, planContent >>))

(* Faulty variant: sparse content is not penalised.                        *)
AgCalculateConfidenceNoHalving(artifactCount, taskContent, planContent) ==
    IF artifactCount = 0 THEN 0
    ELSE LET base == (artifactCount * 100) \div 2
             totalLength == TextLen(taskContent) + TextLen(planContent)
         IN  IF totalLength > 1000 THEN Min(100, base + 10) ELSE base

(* Faulty variant: the boost is not capped.                                        *)
AgCalculateConfidenceNoCap(artifactCount, taskContent, planContent) ==
    IF artifactCount = 0 THEN 0
    ELSE LET base == (artifactCount * 100) \div 2
             totalLength == TextLen(taskContent) + TextLen(planContent)
             boosted == IF totalLength > 1000 THEN base + 10 ELSE base
         IN  IF totalLength < 100 THEN boosted \div 2 ELSE boosted

(* Confidence in hundredths.                                               *)
AgCalculateConfidence(artifactCount, taskContent, planContent) ==
    IF artifactCount = 0 THEN 0
    ELSE LET base == (artifactCount * 100) \div 2
             totalLength == TextLen(taskContent) + TextLen(planContent)
             boosted == IF totalLength > 1000 THEN Min(100, base + 10) ELSE base
         IN  IF totalLength < 100 THEN boosted \div 2 ELSE boosted


----------------------------------------------------------------------------
(* The file system, as the providers see it.                               *)
(*   brain     ANTIGRAVITY brain directory exists                          *)
(*   sessions  its session subdirectories, in the order glob lists them:   *)
(*             [id, mtime, task, plan], task and plan None when the file   *)
(*             is missing, else Some(content)                              *)
(*   projects  the Claude Code projects directory exists                   *)
(*   jsonl     the *.jsonl files below it, in glob order: [id, mtime,      *)
(*             lines]                                                      *)
(*   aider     the Aider dotfiles present in the working directory         *)
(* A file-system call can also fail: the fault an invocation meets is an   *)
(* input of the call ("none", or the call that throws).                    *)

IoFaults == {"none", "glob", "stat", "read"}

(* try { ... } catch (error) { return false; }                             *)
CatchFalse(out) == IF out.t = "throw" THEN Ret(FALSE) ELSE out

(* try { ... } catch (error) { console.error(...); return null; }          *)
CatchNull(out) == IF out.t = "throw" THEN Ret(None) ELSE out

(* .sort((a, b) => b.mtime - a.mtime): stable, newest first.               *)
RECURSIVE InsertByMtime(_, _)
InsertByMtime(sorted, x) ==
    IF sorted = << >> THEN << x >>
    ELSE IF Head(sorted).mtime >= x.mtime
    THEN << Head(sorted) >> \o InsertByMtime(Tail(sorted), x)
    ELSE << x >> \o sorted

(* Faulty variant: the candidates stay in the order glob lists them.        *)
KeepGlobOrder(entries) == entries

RECURSIVE SortByMtimeDesc(_)
SortByMtimeDesc(entries) ==
    IF entries = << >> THEN << >>
    ELSE InsertByMtime(SortByMtimeDesc(SubSeq(entries, 1, Len(entries) - 1)),
                       entries[Len(entries)])

AgDetectBody(f, io) ==
    IF ~f.brain THEN Ret(FALSE)
    ELSE IF io = "glob" THEN ThrowB
    ELSE Ret(Len(f.sessions) > 0)

(* Faulty variant: no try/catch in detect().                                       *)
AntigravityDetectNoCatch(f, io) == AgDetectBody(f, io)

AntigravityDetect(f, io) == CatchFalse(AgDetectBody(f, io))

AgBundle(artifactCount, taskContent, planContent) ==
    [goals       |-> AgExtractGoals(planContent),
     tasks       |-> AgExtractTasks(taskContent),
     decisions   |-> AgExtractDecisions(planContent),
     tradeoffs   |-> AgExtractTradeoffs(planContent),
     constraints |-> AgExtractConstraints(planContent),
     rawNotes    |-> AgBuildRawNotes(taskContent, planContent),
     confidence  |-> AgCalculateConfidence(artifactCount, taskContent, planContent),
     source      |-> "antigravity"]

(* Faulty variant: a session directory without artifacts gives no bundle. *)
AgCollectBodySkipsBare(f, io) ==
    IF io = "glob" THEN Throw
    ELSE IF Len(f.sessions) = 0 THEN Ret(None)
    ELSE IF io = "stat" THEN Throw
    ELSE LET latest == SortByMtimeDesc(f.sessions)[1]
             taskExists == IsSome(latest.task)
             planExists == IsSome(latest.plan)
             taskContent == IF taskExists THEN latest.task[1] ELSE EmptyText
             planContent == IF planExists THEN latest.plan[1] ELSE EmptyText
             artifactCount == (IF taskExists THEN 1 ELSE 0)
                              + (IF planExists THEN 1 ELSE 0)
         IN  IF io = "read" /\ (taskExists \/ planExists) THEN Throw
             ELSE IF artifactCount = 0 THEN Ret(None)
             ELSE Ret(Some(AgBundle(artifactCount, taskContent, planContent)))

(* Faulty variant: only a file with content counts as an artifact.         *)
AgCollectBodyContentOnly(f, io) ==
    IF io = "glob" THEN Throw
    ELSE IF Len(f.sessions) = 0 THEN Ret(None)
    ELSE IF io = "stat" THEN Throw
    ELSE LET latest == SortByMtimeDesc(f.sessions)[1]
             taskExists == IsSome(latest.task)
             planExists == IsSome(latest.plan)
             taskContent == IF taskExists THEN latest.task[1] ELSE EmptyText
             planContent == IF planExists THEN latest.plan[1] ELSE EmptyText
             artifactCount == (IF ~IsEmptyText(taskContent) THEN 1 ELSE 0)
                              + (IF ~IsEmptyText(planContent) THEN 1 ELSE 0)
         IN  IF io = "read" /\ (taskExists \/ planExists) THEN Throw
             ELSE Ret(Some(AgBundle(artifactCount, taskContent, planContent)))

AgCollectBody(f, io) ==
    IF io = "glob" THEN Throw
    ELSE IF Len(f.sessions) = 0 THEN Ret(None)
    ELSE IF io = "stat" THEN Throw
    ELSE LET latest == SortByMtimeDesc(f.sessions)[1]
             taskExists == IsSome(latest.task)
             planExists == IsSome(latest.plan)
             taskContent == IF taskExists THEN latest.task[1] ELSE EmptyText
             planContent == IF planExists THEN latest.plan[1] ELSE EmptyText
             artifactCount == (IF taskExists THEN 1 ELSE 0)
                              + (IF planExists THEN 1 ELSE 0)
         IN  IF io = "read" /\ (taskExists \/ planExists) THEN Throw
             ELSE Ret(Some(AgBundle(artifactCount, taskContent, planContent)))

AntigravityCollect(f, io) == CatchNull(AgCollectBody(f, io))

----------------------------------------------------------------------------
(* CursorProvider and AiderProvider.                                       *)

CursorDetect == Ret(FALSE)

CursorCollect == Ret(None)

AiderFiles == {".aider.chat.history.md", ".aider.input.history", ".aider"}

AiderDetectBody(f) == Ret(\E file \in AiderFiles : file \in f.aider)

AiderDetect(f) == CatchFalse(AiderDetectBody(f))

(* Faulty variant: collect() implemented.                                          *)
AiderCollectImplemented ==
    Ret(Some([goals |-> << >>, tasks |-> << >>, decisions |-> << >>,
              tradeoffs |-> << >>, constraints |-> << >>, rawNotes |-> EmptyText,
              confidence |-> 50, source |-> "aider"]))

AiderCollect == Ret(None)


----------------------------------------------------------------------------
(* ClaudeCodeProvider: the session log.  A line of a .jsonl file is        *)
(*   k = "blank"    white space only (filtered out before parsing)         *)
(*   k = "invalid"  not JSON (JSON.parse throws)                           *)
(*   k = "null"     the JSON value null                                    *)
(*   k = "scalar"   a JSON number, string or boolean                       *)
(*   k = "obj"      a message object: type; mcontent = message.content;    *)
(*                  todos; summary; content (of a tool_result).  A missing *)
(*                  field is None.                                         *)
(* message.content is [shape, text, blocks]: a string, an array of         *)
(* [type, text] blocks, an object with a text field, or another value.     *)

JsonLine(k) ==
    [k |-> k, type |-> "", mcontent |-> None, todos |-> None,
     summary |-> None, content |-> None]

Msg(type, mcontent, todos, summary, content) ==
    [k |-> "obj", type |-> type, mcontent |-> mcontent, todos |-> todos,
     summary |-> summary, content |-> content]

StringContent(text) == [shape |-> "string", text |-> text, blocks |-> << >>]

BlocksContent(blocks) == [shape |-> "blocks", text |-> EmptyText, blocks |-> blocks]

ObjectContent(text) == [shape |-> "object", text |-> text, blocks |-> << >>]

(* A todos entry: content, task and description are None or Some(string), *)
(* status is "" when missing.                                              *)
Todo(content, task, description, status) ==
    [content |-> content, task |-> task, description |-> description,
     status |-> status]

(* content.split('\n').filter(line => line.trim()), then JSON.parse each   *)
(* line, skipping the lines it throws on.                                  *)
ParseJsonl(lines) == SelectSeq(lines, LAMBDA l : l.k \notin {"blank", "invalid"})

(* Reading a property of null throws a TypeError.                          *)
ThrowsOnAccess(messages) == \E i \in 1..Len(messages) : messages[i].k = "null"

(* msg.message?.content is truthy                                          *)
HasMContent(msg) ==
    /\ msg.k = "obj"
    /\ IsSome(msg.mcontent)
    /\ (msg.mcontent[1].shape = "string" => ~IsEmptyText(msg.mcontent[1].text))

RECURSIVE BlockTexts(_)
BlockTexts(blocks) ==
    IF blocks = << >> THEN << >>
    ELSE (IF Head(blocks).type = "text" THEN << Head(blocks).text >> ELSE << >>)
         \o BlockTexts(Tail(blocks))

ExtractTextContent(content) ==
    CASE content.shape = "string" -> content.text
      [] content.shape = "blocks" -> JoinLines(BlockTexts(content.blocks))
      [] content.shape = "object" /\ ~IsEmptyText(content.text) -> content.text
      [] OTHER -> EmptyText

(* line.substring(0, n), cut at a token boundary.                          *)
RECURSIVE TakeLine(_, _)
TakeLine(line, n) ==
    IF line = << >> \/ TokLen(Head(line)) > n THEN << >>
    ELSE << Head(line) >> \o TakeLine(Tail(line), n - TokLen(Head(line)))

RECURSIVE Substring(_, _)
Substring(text, n) ==
    IF LineLen(Head(text)) >= n \/ Len(text) = 1
    THEN << TakeLine(Head(text), n) >>
    ELSE << Head(text) >> \o Substring(Tail(text), n - LineLen(Head(text)) - 1)

CcGoalCap == 5

CcUserGoalMaxLen == 500

CcSummaryMaxLen == 1000

CcSummaryCut == 500

RECURSIVE CcGoalsLoop(_, _, _)
CcGoalsLoop(messages, i, goals) ==
    IF i > Len(messages) THEN goals
    ELSE LET msg == messages[i]
             content == ExtractTextContent(msg.mcontent[1])
             fromUser ==
                 IF /\ msg.type = "user"
                    /\ HasMContent(msg)
                    /\ Len(goals) = 0
                    /\ TextLen(content) < CcUserGoalMaxLen
                 THEN << content >> ELSE << >>
             fromSummary ==
                 IF /\ msg.type = "summary"
                    /\ IsSome(msg.summary)
                    /\ ~IsEmptyText(msg.summary[1])
                    /\ TextLen(msg.summary[1]) < CcSummaryMaxLen
                 THEN << Substring(msg.summary[1], CcSummaryCut) >> ELSE << >>
         IN  CcGoalsLoop(messages, i + 1, goals \o fromUser \o fromSummary)

CcExtractGoals(messages) ==
    LET goals == CcGoalsLoop(messages, 1, << >>)
    IN  SubSeq(goals, 1, Min(CcGoalCap, Len(goals)))


(* todo.content || todo.task || todo.description: None when all are        *)
(* missing or empty.                                                       *)
Truthy(opt) == IsSome(opt) /\ opt[1] # << >>

TodoText(todo) ==
    IF Truthy(todo.content) THEN todo.content
    ELSE IF Truthy(todo.task) THEN todo.task
    ELSE IF Truthy(todo.description) THEN todo.description
    ELSE None

TodoPrefix(todo) ==
    LET status == IF todo.status = "" THEN "pending" ELSE todo.status
    IN  IF status = "completed" THEN <<"[", "x", "]">> ELSE <<"[", " ", "]">>

(* Faulty variant: a todo is rendered again each time it is written.       *)
RECURSIVE TodosLoopEveryWrite(_, _, _)
TodosLoopEveryWrite(todos, j, acc) ==
    IF j > Len(todos) THEN acc
    ELSE LET todo == todos[j]
             taskContent == TodoText(todo)
         IN  IF IsSome(taskContent)
             THEN TodosLoopEveryWrite(todos, j + 1,
                    [tasks |-> Append(acc.tasks,
                                      TodoPrefix(todo) \o <<" ">> \o taskContent[1]),
                     seen  |-> acc.seen \cup {taskContent[1]}])
             ELSE TodosLoopEveryWrite(todos, j + 1, acc)

RECURSIVE TodosLoop(_, _, _)
TodosLoop(todos, j, acc) ==
    IF j > Len(todos) THEN acc
    ELSE LET todo == todos[j]
             taskContent == TodoText(todo)
         IN  IF IsSome(taskContent) /\ taskContent[1] \notin acc.seen
             THEN TodosLoop(todos, j + 1,
                    [tasks |-> Append(acc.tasks,
                                      TodoPrefix(todo) \o <<" ">> \o taskContent[1]),
                     seen  |-> acc.seen \cup {taskContent[1]}])
             ELSE TodosLoop(todos, j + 1, acc)

(* content.match(/^[\s-]*\[[\sx/]\]\s+.+$/gm): the matching lines.         *)
RECURSIVE ChecklistLoop(_, _, _)
ChecklistLoop(lines, j, acc) ==
    IF j > Len(lines) THEN acc
    ELSE LET cleaned == Trim(lines[j]) IN
         IF ChecklistMatch(lines[j]) # << >> /\ cleaned \notin acc.seen
         THEN ChecklistLoop(lines, j + 1,
                [tasks |-> Append(acc.tasks, cleaned),
                 seen  |-> acc.seen \cup {cleaned}])
         ELSE ChecklistLoop(lines, j + 1, acc)

RECURSIVE CcTasksLoop(_, _, _)
CcTasksLoop(messages, i, acc) ==
    IF i > Len(messages) THEN acc.tasks
    ELSE LET msg == messages[i]
             afterTodos ==
                 IF IsSome(msg.todos) THEN TodosLoop(msg.todos[1], 1, acc) ELSE acc
             afterResult ==
                 IF /\ msg.type = "tool_result"
                    /\ IsSome(msg.content)
                    /\ ~IsEmptyText(msg.content[1])
                 THEN ChecklistLoop(msg.content[1], 1, afterTodos)
                 ELSE afterTodos
         IN  CcTasksLoop(messages, i + 1, afterResult)

CcExtractTasks(messages) ==
    CcTasksLoop(messages, 1, [tasks |-> << >>, seen |-> {}])


(* The phrase patterns, /<key><sep>+(.+?)(?:\.|$)/gi: keys are the word    *)
(* tokens the key expression matches (in any letter case), seps the        *)
(* characters of the separator class, g1 the text of a capture group that  *)
(* precedes the phrase group (I('ll| will) use), "" when there is none.    *)
Pattern(keys, seps, g1) == [keys |-> keys, seps |-> seps, g1 |-> g1]

SpaceSep == {" ", NL}

ColonSep == {" ", NL, ":"}

CommaSep == {" ", NL, ":", ","}

DecisionPatterns ==
    << Pattern({"I'll use"}, SpaceSep, "'ll"),
       Pattern({"I will use"}, SpaceSep, "will"),
       Pattern({"decided to", "Decided to"}, SpaceSep, ""),
       Pattern({"choosing"}, SpaceSep, ""),
       Pattern({"going with"}, SpaceSep, ""),
       Pattern({"approach"}, ColonSep, "") >>

TradeoffPatterns ==
    << Pattern({"trade-off", "tradeoff"}, ColonSep, ""),
       Pattern({"caveat"}, ColonSep, ""),
       Pattern({"note that"}, SpaceSep, ""),
       Pattern({"however", "However"}, CommaSep, ""),
       Pattern({"downside"}, ColonSep, "") >>

ConstraintPatterns ==
    << Pattern({"must"}, SpaceSep, ""),
       Pattern({"should"}, SpaceSep, ""),
       Pattern({"need to"}, SpaceSep, ""),
       Pattern({"require", "required", "requires"}, SpaceSep, ""),
       Pattern({"constraint"}, ColonSep, "") >>

(* The text as one token sequence, '\n' between its lines.                 *)
RECURSIVE Flatten(_)
Flatten(text) ==
    IF Len(text) = 1 THEN text[1]
    ELSE text[1] \o << NL >> \o Flatten(Tail(text))

RECURSIVE SkipSeps(_, _, _)
SkipSeps(flat, pos, seps) ==
    IF pos <= Len(flat) /\ flat[pos] \in seps
    THEN SkipSeps(flat, pos + 1, seps)
    ELSE pos

(* (.+?)(?:\.|$) from start: the index of the last captured token, 0 when  *)
(* a line break comes before the next "." or the end of the text.          *)
RECURSIVE CaptureEnd(_, _)
CaptureEnd(flat, q) ==
    IF flat[q] = NL THEN 0
    ELSE IF q = Len(flat) \/ flat[q + 1] = "." THEN q
    ELSE CaptureEnd(flat, q + 1)

(* content.matchAll(pattern): the value (match[1] || match[2] || '') of    *)
(* each match, in text order.  A match that only succeeds by giving a      *)
(* separator character back to the phrase group captures that one          *)
(* character, which no caller keeps: it is left out.                       *)
RECURSIVE MatchAllFrom(_, _, _)
MatchAllFrom(flat, pat, pos) ==
    IF pos > Len(flat) THEN << >>
    ELSE IF flat[pos] \notin pat.keys THEN MatchAllFrom(flat, pat, pos + 1)
    ELSE LET start == SkipSeps(flat, pos + 1, pat.seps)
             q == IF start = pos + 1 \/ start > Len(flat) THEN 0
                  ELSE CaptureEnd(flat, start)
         IN  IF q = 0 THEN MatchAllFrom(flat, pat, pos + 1)
             ELSE << IF pat.g1 # "" THEN << pat.g1 >>
                     ELSE SubSeq(flat, start, q) >>
                  \o MatchAllFrom(flat, pat, q + 2)

CcPhraseMinLen == 10

CcPhraseMaxLen == 200

CcPhraseCap == 10

(* The kept phrases of one text under one pattern.                         *)
KeptPhrases(flat, pat) ==
    SelectSeq([i \in 1..Len(MatchAllFrom(flat, pat, 1)) |->
                   Trim(MatchAllFrom(flat, pat, 1)[i])],
              LAMBDA d : /\ d # << >>
                         /\ LineLen(d) > CcPhraseMinLen
                         /\ LineLen(d) < CcPhraseMaxLen)

RECURSIVE PatternsLoop(_, _, _)
PatternsLoop(flat, patterns, k) ==
    IF k > Len(patterns) THEN << >>
    ELSE KeptPhrases(flat, patterns[k]) \o PatternsLoop(flat, patterns, k + 1)

RECURSIVE PhrasesLoop(_, _, _, _)
PhrasesLoop(messages, type, patterns, i) ==
    IF i > Len(messages) THEN << >>
    ELSE (IF messages[i].type = type /\ HasMContent(messages[i])
          THEN PatternsLoop(Flatten(ExtractTextContent(messages[i].mcontent[1])),
                            patterns, 1)
          ELSE << >>)
         \o PhrasesLoop(messages, type, patterns, i + 1)

(* Faulty variant: repeated phrases are kept.                              *)
KeepRepeats(items) == items

(* [...new Set(items)]: first occurrences, in order.                       *)
RECURSIVE Dedupe(_)
Dedupe(items) ==
    IF items = << >> THEN << >>
    ELSE LET init == Dedupe(SubSeq(items, 1, Len(items) - 1))
             last == items[Len(items)]
         IN  IF \E i \in 1..Len(init) : init[i] = last
             THEN init ELSE Append(init, last)

DedupeAndLimit(items) ==
    LET distinct == Dedupe(items)
    IN  SubSeq(distinct, 1, Min(CcPhraseCap, Len(distinct)))

CcExtractDecisions(messages) ==
    DedupeAndLimit(PhrasesLoop(messages, "assistant", DecisionPatterns, 1))

CcExtractTradeoffs(messages) ==
    DedupeAndLimit(PhrasesLoop(messages, "assistant", TradeoffPatterns, 1))

CcExtractConstraints(messages) ==
    DedupeAndLimit(PhrasesLoop(messages, "user", ConstraintPatterns, 1))


CcNotesWindow == 20

CcNotesCut == 500

(* `${label}: ${content.substring(0, 500)}`                                *)
NoteLine(label, content) ==
    LET cut == Substring(content, CcNotesCut)
    IN  << << label, ":", " " >> \o Head(cut) >> \o Tail(cut)

RECURSIVE CcNotesLoop(_, _)
CcNotesLoop(recent, i) ==
    IF i > Len(recent) THEN << >>
    ELSE LET msg == recent[i]
             content == ExtractTextContent(msg.mcontent[1])
             label == IF msg.type = "user" THEN "User" ELSE "Assistant"
         IN  (IF /\ msg.type \in {"user", "assistant"}
                 /\ HasMContent(msg)
                 /\ ~IsEmptyText(content)
              THEN << NoteLine(label, content) >> ELSE << >>)
             \o CcNotesLoop(recent, i + 1)

(* notes.join('\n\n')                                                      *)
RECURSIVE JoinParagraphs(_)
JoinParagraphs(parts) ==
    IF Len(parts) = 1 THEN parts[1]
    ELSE parts[1] \o << << >> >> \o JoinParagraphs(Tail(parts))

CcBuildRawNotes(messages) ==
    LET from == IF Len(messages) > CcNotesWindow
                THEN Len(messages) - CcNotesWindow + 1 ELSE 1
        recentMessages == SubSeq(messages, from, Len(messages))
    IN  JoinParagraphs(<< << <<"=== Claude Code Session ===">>, << >> >> >>
                       \o CcNotesLoop(recentMessages, 1))

CcManyMessages == 5

CcVeryManyMessages == 20

(* Faulty variant: a session of exactly five messages already earns the   *)
(* boost for many messages.                                                *)
CcCalculateConfidenceFromFive(messages) ==
    IF Len(messages) = 0 THEN 0
    ELSE LET hasTodos ==
                 \E i \in 1..Len(messages) :
                     IsSome(messages[i].todos) /\ Len(messages[i].todos[1]) > 0
             hasUserMessages ==
                 \E i \in 1..Len(messages) : messages[i].type = "user"
             hasAssistantMessages ==
                 \E i \in 1..Len(messages) : messages[i].type = "assistant"
         IN  Min(100, 30
                      + (IF Len(messages) >= CcManyMessages THEN 20 ELSE 0)
                      + (IF Len(messages) > CcVeryManyMessages THEN 10 ELSE 0)
                      + (IF hasTodos THEN 20 ELSE 0)
                      + (IF hasUserMessages THEN 10 ELSE 0)
                      + (IF hasAssistantMessages THEN 10 ELSE 0))

(* Confidence in hundredths.                                               *)
CcCalculateConfidence(messages) ==
    IF Len(messages) = 0 THEN 0
    ELSE LET hasTodos ==
                 \E i \in 1..Len(messages) :
                     IsSome(messages[i].todos) /\ Len(messages[i].todos[1]) > 0
             hasUserMessages ==
                 \E i \in 1..Len(messages) : messages[i].type = "user"
             hasAssistantMessages ==
                 \E i \in 1..Len(messages) : messages[i].type = "assistant"
         IN  Min(100, 30
                      + (IF Len(messages) > CcManyMessages THEN 20 ELSE 0)
                      + (IF Len(messages) > CcVeryManyMessages THEN 10 ELSE 0)
                      + (IF hasTodos THEN 20 ELSE 0)
                      + (IF hasUserMessages THEN 10 ELSE 0)
                      + (IF hasAssistantMessages THEN 10 ELSE 0))

CcDetectBody(f, io) ==
    IF ~f.projects THEN Ret(FALSE)
    ELSE IF io = "glob" THEN ThrowB
    ELSE Ret(Len(f.jsonl) > 0)

ClaudeCodeDetect(f, io) == CatchFalse(CcDetectBody(f, io))

CcBundle(messages) ==
    [goals       |-> CcExtractGoals(messages),
     tasks       |-> CcExtractTasks(messages),
     decisions   |-> CcExtractDecisions(messages),
     tradeoffs   |-> CcExtractTradeoffs(messages),
     constraints |-> CcExtractConstraints(messages),
     rawNotes    |-> CcBuildRawNotes(messages),
     confidence  |-> CcCalculateConfidence(messages),
     source      |-> "claude-code"]

CcCollectBody(f, io) ==
    IF io = "glob" THEN Throw
    ELSE IF Len(f.jsonl) = 0 THEN Ret(None)
    ELSE IF io \in {"stat", "read"} THEN Throw
    ELSE LET latestFile == SortByMtimeDesc(f.jsonl)[1]
             messages == ParseJsonl(latestFile.lines)
         IN  IF ThrowsOnAccess(messages) THEN Throw
             ELSE Ret(Some(CcBundle(messages)))

(* Faulty variant: no try/catch in collect().                                      *)
ClaudeCodeCollectNoCatch(f, io) == CcCollectBody(f, io)

ClaudeCodeCollect(f, io) == CatchNull(CcCollectBody(f, io))


----------------------------------------------------------------------------
(* A provider the registry's caller supplies (any implementation of the    *)
(* IntentProvider interface): each call does whatever the caller wrote,    *)
(* which is an input of the call.                                          *)

MockBundle(confidence, rawNotes) ==
    [goals |-> << >>, tasks |-> << >>, decisions |-> << >>, tradeoffs |-> << >>,
     constraints |-> << >>, rawNotes |-> rawNotes, confidence |-> confidence,
     source |-> "mock"]

MockDetectOutcomes == {Ret(TRUE), Ret(FALSE), ThrowB}

MockCollectOutcomes ==
    {Ret(None), Ret(Some(MockBundle(10, << <<"Notes">> >>))),
     Ret(Some(MockBundle(90, EmptyText))), Throw}

ProviderNames == {"antigravity", "claude-code", "cursor", "aider", "mock"}

(* The providers the repository implements.                               *)
ConcreteProviders == {"antigravity", "claude-code", "cursor", "aider"}

(* detect() of the provider of that name, over the files f, meeting the    *)
(* file-system fault io.                                                   *)
ProviderDetect(name, f, io) ==
    CASE name = "antigravity" -> AntigravityDetect(f, io)
      [] name = "claude-code" -> ClaudeCodeDetect(f, io)
      [] name = "cursor"      -> CursorDetect
      [] name = "aider"       -> AiderDetect(f)

(* collect() of the provider of that name.                                 *)
ProviderCollect(name, f, io) ==
    CASE name = "antigravity" -> AntigravityCollect(f, io)
      [] name = "claude-code" -> ClaudeCodeCollect(f, io)
      [] name = "cursor"      -> CursorCollect
      [] name = "aider"       -> AiderCollect

----------------------------------------------------------------------------
(* The files of the model's file systems.                                  *)

CachingPlan ==
    << <<"#", " ", "Add caching layer">>,
       <<"#", "#", " ", "Summary">>,
       <<"Introduce LRU cache", ".">>,
       <<"#", "#", " ", "Trade-offs">>,
       <<"Memory usage increases", ".">> >>

LongPlan == CachingPlan \o << <<"Long design rationale">> >>

TaskList ==
    << <<"-", " ", "[", "x", "]", " ", "Add cache">>,
       <<"-", " ", "[", " ", "]", " ", "Write tests">> >>

Session(id, mtime, task, plan) ==
    [id |-> id, mtime |-> mtime, task |-> task, plan |-> plan]

BareSession == Session("s-bare", 3, None, None)

CachingSession == Session("s-caching", 2, Some(EmptyText), Some(CachingPlan))

FullSession == Session("s-full", 1, Some(TaskList), Some(LongPlan))

UserMsg(text) == Msg("user", Some(StringContent(text)), None, None, None)

AssistantMsg(text) == Msg("assistant", Some(StringContent(text)), None, None, None)

TodosMsg(todos) == Msg("assistant", None, Some(todos), None, None)

ChatLines ==
    << UserMsg(<< <<"Add caching layer">> >>),
       JsonLine("invalid"),
       AssistantMsg(<< <<"decided to", " ", "Introduce LRU cache", ".">> >>),
       JsonLine("blank"),
       TodosMsg(<< Todo(Some(<<"Add cache">>), None, None, "completed"),
                   Todo(Some(<<"Write tests">>), None, None, "pending") >>) >>

JsonlFile(id, mtime, lines) == [id |-> id, mtime |-> mtime, lines |-> lines]

ChatFile == JsonlFile("chat", 2, ChatLines)

NullFile == JsonlFile("null", 3, << UserMsg(<< <<"Notes">> >>), JsonLine("null") >>)

BlankFile == JsonlFile("blank", 1, << JsonLine("blank") >>)

FileSystem(brain, sessions, projects, jsonl, aider) ==
    [brain |-> brain, sessions |-> sessions, projects |-> projects,
     jsonl |-> jsonl, aider |-> aider]

NoFiles == FileSystem(FALSE, << >>, FALSE, << >>, {})

(* The providers whose calls read the file system.                         *)
FsReaders == {"antigravity", "claude-code", "aider"}

(* The file systems the registry runs over.                                *)
FsStates ==
    { NoFiles,
      FileSystem(TRUE, << FullSession, BareSession >>, TRUE, << ChatFile >>,
                 {".aider"}),
      FileSystem(TRUE, << CachingSession >>, TRUE, << ChatFile, NullFile >>, {}) }

----------------------------------------------------------------------------
(* buildContextPrompt (services/prompt-builder.ts).                        *)

NoContextNotice ==
    << <<"No active AI session context found. Rely solely on the diff.">> >>

(* confidence.toFixed(2), of a confidence kept in hundredths.              *)
ToFixed2(c) ==
    ToString(c \div 100) \o "." \o ToString((c % 100) \div 10) \o ToString(c % 10)

(* t + u, of multi-line strings.                                           *)
Concat(t, u) == SubSeq(t, 1, Len(t) - 1) \o << t[Len(t)] \o u[1] >> \o Tail(u)

(* An entry of a bundle's list as a string: ClaudeCode's goals are whole   *)
(* message texts, every other entry is one line.                           *)
ItemText(b, field, item) ==
    IF b.source = "claude-code" /\ field = "goals" THEN item ELSE << item >>

StructuredFields == <<"goals", "tasks", "decisions", "tradeoffs", "constraints">>

SectionTitles == <<"Goals:", "Tasks:", "Decisions:", "Trade-offs:", "Constraints:">>

(* if (bundle.f && bundle.f.length > 0): the title, the entries as         *)
(* "- entry" lines, and a blank line.                                      *)
Section(b, k) ==
    LET items == b[StructuredFields[k]] IN
    IF Len(items) = 0 THEN EmptyText
    ELSE Concat(Concat(<< <<SectionTitles[k]>>, << >> >>,
                       JoinLines([i \in 1..Len(items) |->
                           Concat(<< <<"-", " ">> >>,
                                  ItemText(b, StructuredFields[k], items[i]))])),
                << << >>, << >>, << >> >>)

RECURSIVE Sections(_, _)
Sections(b, k) ==
    IF k = 0
    THEN << <<"AI CONTEXT (Source: ", b.source, ", Confidence: ",
              ToFixed2(b.confidence), "):">>, << >>, << >> >>
    ELSE Concat(Sections(b, k - 1), Section(b, k))

HasStructuredData(b) ==
    \E k \in 1..Len(StructuredFields) : Len(b[StructuredFields[k]]) > 0

RECURSIVE DropBlankTail(_)
DropBlankTail(t) ==
    IF Len(t) > 1 /\ Trim(t[Len(t)]) = << >>
    THEN DropBlankTail(SubSeq(t, 1, Len(t) - 1)) ELSE t

RECURSIVE DropBlankHead(_)
DropBlankHead(t) ==
    IF Len(t) > 1 /\ Trim(t[1]) = << >> THEN DropBlankHead(Tail(t)) ELSE t

(* prompt.trim()                                                           *)
TrimText(t) ==
    LET core == DropBlankHead(DropBlankTail(t)) IN
    [i \in 1..Len(core) |->
        IF i = 1 /\ i = Len(core) THEN Trim(core[i])
        ELSE IF i = 1 THEN TrimStart(core[i])
        ELSE IF i = Len(core) THEN TrimEnd(core[i])
        ELSE core[i]]

(* The prompt of a non-null bundle, rawNotes appended when withNotes.      *)
PromptOf(b, withNotes) ==
    TrimText(Concat(Sections(b, Len(StructuredFields)),
                    IF withNotes
                    THEN Concat(Concat(<< <<"Additional Context:">>, << >> >>,
                                       b.rawNotes),
                                << << >>, << >> >>)
                    ELSE EmptyText))

(* Faulty variant: rawNotes is appended whatever else the bundle holds.    *)
BuildContextPromptAlwaysNotes(bundle) ==
    IF ~IsSome(bundle) THEN NoContextNotice
    ELSE PromptOf(bundle[1], bundle[1].rawNotes # EmptyText)

BuildContextPrompt(bundle) ==
    IF ~IsSome(bundle) THEN NoContextNotice
    ELSE PromptOf(bundle[1],
                  ~HasStructuredData(bundle[1]) /\ bundle[1].rawNotes # EmptyText)

----------------------------------------------------------------------------
(* ProviderRegistry.                                                       *)

(* The values INTENT_PROVIDER takes: unset or empty (""), a provider's     *)
(* identifier, or another string.                                          *)
EnvValues == {""} \cup ProviderNames \cup {"unknown"}

(* this.providers.find(p => p.name === name): its index, 0 for undefined.  *)
GetProviderByName(list, name) ==
    LET hits == {i \in 1..Len(list) : list[i] = name}
    IN  IF hits = {} THEN 0 ELSE CHOOSE i \in hits : \A j \in hits : i <= j

(* if (explicitProvider)                                                   *)
IsExplicit(e) == e # ""

(* Faulty variant: an explicit name that is not registered falls back to the      *)
(* head of the list.                                                       *)
FirstIndexFallback(list, e) ==
    IF IsExplicit(e) /\ GetProviderByName(list, e) # 0
    THEN GetProviderByName(list, e)
    ELSE IF Len(list) > 0 THEN 1 ELSE 0

(* The first provider tried: the named one, or the head of the list.       *)
FirstIndex(list, e) ==
    IF IsExplicit(e) THEN GetProviderByName(list, e)
    ELSE IF Len(list) > 0 THEN 1 ELSE 0

(* Faulty variant: the loop does not advance.                                      *)
NextIndexSame(list, m, i) ==
    IF m = "auto" /\ i <= Len(list) THEN i ELSE 0

(* The provider tried after provider i failed, 0 when there is none.       *)
NextIndex(list, m, i) ==
    IF m = "auto" /\ i < Len(list) THEN i + 1 ELSE 0

(* Faulty variant: collect() is called whatever detect() returned.                 *)
AfterDetectIgnoresResult(m, out) ==
    IF out.t = "throw"
    THEN (IF m = "auto" THEN "Failed" ELSE "Exhausted")
    ELSE "Detected"

(* Where the invocation stands once detect() has returned or thrown.       *)
AfterDetect(m, out) ==
    IF out.t = "throw"
    THEN (IF m = "auto" THEN "Failed" ELSE "Exhausted")
    ELSE IF out.v THEN "Detected"
    ELSE IF m = "auto" THEN "Failed" ELSE "Exhausted"

(* Faulty variant: a bundle of confidence below 0.5 is passed over.                *)
AfterCollectSkipLow(m, out) ==
    IF out.t = "throw"
    THEN (IF m = "auto" THEN "Failed" ELSE "Exhausted")
    ELSE IF IsSome(out.v) /\ out.v[1].confidence >= 50 THEN "Collected"
    ELSE IF m = "auto" THEN "Failed" ELSE "Exhausted"

(* Faulty variant: the loop goes on after a bundle was collected.           *)
AfterCollectNoShortCircuit(m, out) ==
    IF out.t = "throw"
    THEN (IF m = "auto" THEN "Failed" ELSE "Exhausted")
    ELSE IF IsSome(out.v) /\ m = "explicit" THEN "Collected"
    ELSE IF m = "auto" THEN "Failed" ELSE "Exhausted"

(* Faulty variant: no try/catch around collect().                                  *)
AfterCollectPropagates(m, out) ==
    IF out.t = "throw" THEN "Threw"
    ELSE IF IsSome(out.v) THEN "Collected"
    ELSE IF m = "auto" THEN "Failed" ELSE "Exhausted"

(* Where the invocation stands once collect() has returned or thrown.      *)
AfterCollect(m, out) ==
    IF out.t = "throw"
    THEN (IF m = "auto" THEN "Failed" ELSE "Exhausted")
    ELSE IF IsSome(out.v) THEN "Collected"
    ELSE IF m = "auto" THEN "Failed" ELSE "Exhausted"

(* The value detectAndCollect returns when collect() ends the invocation.  *)
Returned(out) == IF out.t = "ret" THEN out.v ELSE None

(* An entry of the call history: provider i's detect or collect was called *)
(* (ph = "call"), returned (ph = "ret") or threw (ph = "throw"); ok is the  *)
(* boolean detect() returned, b what collect() returned.                   *)
Event(i, op, ph, ok, b) == [i |-> i, op |-> op, ph |-> ph, ok |-> ok, b |-> b]

Terminal == {"Collected", "Exhausted", "Threw"}

(* A direct call: provider name's op over the current files, meeting the   *)
(* fault io, ended t ("ret" or "throw") with the boolean ok or the bundle  *)
(* b; prior tells whether that provider's last direct detect() had         *)
(* returned true.                                                          *)
Probe(name, op, io, t, ok, b, prior) ==
    [name |-> name, op |-> op, io |-> io, t |-> t, ok |-> ok, b |-> b,
     prior |-> prior]

NoProbe == Probe("", "", "none", "ret", FALSE, None, FALSE)

(* What an awaited provider.detect() of a repository provider can do over  *)
(* each file system: one outcome per fault the call may meet.              *)
DetectTable ==
    [n \in ConcreteProviders |->
        [f \in FsStates |-> {ProviderDetect(n, f, io) : io \in IoFaults}]]

(* What an awaited provider.collect() of a repository provider can do.     *)
CollectTable ==
    [n \in ConcreteProviders |->
        [f \in FsStates |-> {ProviderCollect(n, f, io) : io \in IoFaults}]]

(* What the registry's await provider.detect() can see; a caller-supplied  *)
(* provider does anything.                                                 *)
DetectOutcomes(name, f) ==
    IF name \in ConcreteProviders THEN DetectTable[name][f]
    ELSE MockDetectOutcomes

(* What the registry's await provider.collect() can see.                   *)
CollectOutcomes(name, f) ==
    IF name \in ConcreteProviders THEN CollectTable[name][f]
    ELSE MockCollectOutcomes

Init ==
    /\ providers = << >>
    /\ env \in EnvValues
    /\ fs = NoFiles
    /\ pc = "Idle"
    /\ mode = "none"
    /\ idx = 0
    /\ trace = << >>
    /\ result = None
    /\ probe = NoProbe
    /\ detected = {}
    /\ prompt = None

Register(p) ==
    /\ pc = "Idle"
    /\ Len(providers) < MaxProviders
    /\ providers' = Append(providers, p)
    /\ UNCHANGED <<env, fs, pc, mode, idx, trace, result, probe, detected, prompt>>

(* getIntentContext: on a new registry, Antigravity, Cursor and Aider are  *)
(* registered in that order and detectAndCollect is called.                *)
IntentContextProviders == << "antigravity", "cursor", "aider" >>

GetIntentContext ==
    /\ pc = "Idle"
    /\ providers = << >>
    /\ providers' = IntentContextProviders
    /\ pc' = "Selecting"
    /\ UNCHANGED <<env, fs, mode, idx, trace, result, probe, detected, prompt>>

(* detectAndCollect is called.                                             *)
Begin ==
    /\ pc = "Idle"
    /\ pc' = "Selecting"
    /\ UNCHANGED <<providers, env, fs, mode, idx, trace, result, probe, detected, prompt>>

(* Explicit or auto, and the first provider to try.                        *)
Select ==
    /\ pc = "Selecting"
    /\ mode' = IF IsExplicit(env) THEN "explicit" ELSE "auto"
    /\ idx' = FirstIndex(providers, env)
    /\ pc' = IF idx' = 0 THEN "Exhausted" ELSE "Trying"
    /\ UNCHANGED <<providers, env, fs, trace, result, probe, detected, prompt>>

CallDetect ==
    /\ pc = "Trying"
    /\ pc' = "Detecting"
    /\ trace' = Append(trace, Event(idx, "detect", "call", FALSE, None))
    /\ UNCHANGED <<providers, env, fs, mode, idx, result, probe, detected, prompt>>

DetectReturn ==
    /\ pc = "Detecting"
    /\ \E out \in DetectOutcomes(providers[idx], fs) :
         /\ trace' = Append(trace, Event(idx, "detect", out.t, out.t = "ret" /\ out.v, None))
         /\ pc' = AfterDetect(mode, out)
    /\ UNCHANGED <<providers, env, fs, mode, idx, result, probe, detected, prompt>>

CallCollect ==
    /\ pc = "Detected"
    /\ pc' = "Collecting"
    /\ trace' = Append(trace, Event(idx, "collect", "call", FALSE, None))
    /\ UNCHANGED <<providers, env, fs, mode, idx, result, probe, detected, prompt>>

CollectReturn ==
    /\ pc = "Collecting"
    /\ \E out \in CollectOutcomes(providers[idx], fs) :
         /\ trace' = Append(trace, Event(idx, "collect", out.t, FALSE, Returned(out)))
         /\ pc' = AfterCollect(mode, out)
         /\ result' = IF pc' = "Collected" THEN Returned(out) ELSE None
    /\ UNCHANGED <<providers, env, fs, mode, idx, probe, detected, prompt>>

(* The provider failed: the loop goes on, or ends with null.               *)
NextProvider ==
    /\ pc = "Failed"
    /\ idx' = NextIndex(providers, mode, idx)
    /\ pc' = IF idx' = 0 THEN "Exhausted" ELSE "Trying"
    /\ UNCHANGED <<providers, env, fs, mode, trace, result, probe, detected, prompt>>

(* The caller has the result; the registry can be used again.              *)
Return ==
    /\ pc \in Terminal
    /\ pc' = "Idle"
    /\ mode' = "none"
    /\ idx' = 0
    /\ trace' = << >>
    /\ result' = None
    /\ prompt' = None
    /\ UNCHANGED <<providers, env, fs, probe, detected>>

(* The caller builds the context prompt from what detectAndCollect         *)
(* returned.                                                               *)
BuildPrompt ==
    /\ pc \in {"Collected", "Exhausted"}
    /\ prompt = None
    /\ prompt' = Some(BuildContextPrompt(result))
    /\ UNCHANGED <<providers, env, fs, pc, mode, idx, trace, result, probe, detected>>

(* Another process changes the files while a provider call that reads     *)
(* them is awaited: the call sees the files it finds when it runs.         *)
(* Changes that no call reads are not told apart.                          *)
FsChange ==
    /\ pc \in {"Detecting", "Collecting"}
    /\ providers[idx] \in FsReaders
    /\ fs' \in FsStates \ {fs}
    /\ UNCHANGED <<providers, env, pc, mode, idx, trace, result, probe, detected, prompt>>

InvocationStep ==
    \/ Select
    \/ CallDetect
    \/ DetectReturn
    \/ CallCollect
    \/ CollectReturn
    \/ NextProvider

Next ==
    \/ \E p \in ProviderNames : Register(p)
    \/ Begin
    \/ GetIntentContext
    \/ Select
    \/ CallDetect
    \/ DetectReturn
    \/ CallCollect
    \/ CollectReturn
    \/ NextProvider
    \/ BuildPrompt
    \/ Return
    \/ FsChange

Spec == Init /\ [][Next]_vars

FairSpec == Spec /\ WF_vars(InvocationStep)


----------------------------------------------------------------------------
(* The providers alone: detect() and collect() called directly.            *)

TaskOnlySession == Session("s-task", 1, Some(TaskList), None)

LongPlanSession == Session("s-long", 1, None, Some(LongPlan))

MediumSession ==
    Session("s-medium", 1, Some(TaskList),
            Some(CachingPlan \o << <<"Medium sized note">> >>))

BigChatFile ==
    JsonlFile("big", 1,
              [i \in 1..22 |->
                   IF i = 1 THEN ChatLines[5]
                   ELSE IF i % 2 = 0 THEN ChatLines[1] ELSE ChatLines[3]])

InvalidFile == JsonlFile("invalid", 1, << JsonLine("invalid"), JsonLine("blank") >>)

ScalarFile == JsonlFile("scalar", 1, << JsonLine("scalar") >>)

(* The medium-sized plan alone, without a task.md.                         *)
MediumPlanSession == Session("s-medium-plan", 1, None, MediumSession.plan)

(* A plan with one decisions section (lower-case heading, a blockquote, a  *)
(* blank and an indented line in it) and one requirements section.         *)
SectionsPlan ==
    << <<"#", " ", "Add caching layer">>,
       <<"Notes">>,
       <<"#", "#", " ", "decisions">>,
       <<"Introduce LRU cache", ".">>,
       <<">", " ", "Notes">>,
       << >>,
       <<" ", " ", "Write tests", " ">>,
       <<"#", "#", " ", "Requirements">>,
       <<"Memory usage increases", ".">> >>

SectionsSession == Session("s-sections", 1, None, Some(SectionsPlan))

(* A plan that comes back to its decisions and to its constraints after    *)
(* another section.                                                        *)
ReopenedPlan ==
    << <<"#", "#", " ", "Decisions">>,
       <<"Introduce LRU cache", ".">>,
       <<"#", "#", " ", "Constraints">>,
       <<"Memory usage increases", ".">>,
       <<"#", "#", " ", "User Review Required">>,
       <<"Write tests">>,
       <<"#", "#", " ", "Requirements">>,
       <<"Add cache">> >>

ReopenedSession == Session("s-reopened", 1, None, Some(ReopenedPlan))

AlertLine(word) == <<">", " ", "[", "!", word, "]">>

(* A plan with one alert ahead of its trade-offs section.                  *)
AlertPlan ==
    << <<"#", " ", "Add caching layer">>,
       AlertLine("WARNING"),
       <<">", " ", "Memory usage increases", ".">>,
       <<"#", "#", " ", "Trade-offs">>,
       <<"Introduce LRU cache", ".">> >>

AlertSession == Session("s-alert", 1, None, Some(AlertPlan))

(* A plan with the same alert marker twice.                                *)
RepeatAlertPlan ==
    << AlertLine("WARNING"),
       <<">", " ", "Memory usage increases", ".">>,
       AlertLine("WARNING"),
       <<">", " ", "Write tests">> >>

RepeatAlertSession == Session("s-alert-twice", 1, None, Some(RepeatAlertPlan))

(* A plan with an alert below its trade-offs section.                      *)
LateAlertPlan ==
    << <<"#", "#", " ", "Trade-offs">>,
       <<"Memory usage increases", ".">>,
       <<"#", "#", " ", "Summary">>,
       AlertLine("IMPORTANT"),
       <<">", " ", "Write tests">> >>

LateAlertSession == Session("s-alert-late", 1, None, Some(LateAlertPlan))

(* A plan with two summary sections.                                       *)
TwoSummariesPlan ==
    << <<"Notes">>,
       <<"#", " ", "Add caching layer">>,
       <<"#", "#", " ", "Summary">>,
       <<"Introduce LRU cache", ".">>,
       <<"#", "#", " ", "Trade-offs">>,
       <<"Memory usage increases", ".">>,
       <<"#", "#", " ", "summary">>,
       <<"Write tests">> >>

TwoSummariesSession == Session("s-summaries", 1, None, Some(TwoSummariesPlan))

(* A plan whose Decisions section states the same decision twice.         *)
DecisionsPlan ==
    << <<"#", " ", "Add caching layer">>,
       <<"#", "#", " ", "Decisions">>,
       <<"Introduce LRU cache", ".">>,
       <<"Introduce LRU cache", ".">> >>

(* A task list that names one task twice.                                  *)
RepeatTaskList == << TaskList[2], TaskList[1], TaskList[2] >>

RepeatSession == Session("s-repeat", 1, Some(RepeatTaskList), Some(DecisionsPlan))

BrainOptions ==
    { << >>, << BareSession >>, << CachingSession >>, << FullSession >>,
      << FullSession, BareSession >>, << TaskOnlySession, CachingSession >>,
      << TaskOnlySession >>, << LongPlanSession >>, << MediumSession >>,
      << RepeatSession >>, << MediumPlanSession >>, << SectionsSession >>,
      << ReopenedSession >>, << AlertSession >>, << RepeatAlertSession >>,
      << LateAlertSession >>, << TwoSummariesSession >> }

ToolResultMsg(text) == Msg("tool_result", None, None, None, Some(text))

SummaryMsg(text) == Msg("summary", None, None, Some(text), None)

(* A session whose tasks come up both as todos and as checklist lines of   *)
(* tool results.                                                           *)
TasksFile ==
    JsonlFile("tasks", 1,
        << TodosMsg(<< Todo(Some(<<"Write tests">>), None, None, "pending") >>),
           ToolResultMsg(<< <<"-", " ", "[", " ", "]", " ", "Write tests">>,
                            <<"[", " ", "]", " ", "Write tests">>,
                            <<"[", " ", "]", " ", "Add cache">> >>),
           TodosMsg(<< Todo(Some(<<"[", " ", "]", " ", "Add cache">>), None, None,
                            "pending") >>) >>)

(* A session whose phrases repeat with other spacing and other letter     *)
(* case, and come too short and too long.                                  *)
PhrasesFile ==
    JsonlFile("phrases", 1,
        << AssistantMsg(<< <<"decided to", " ", "Introduce LRU cache", " ", ".">>,
                           <<"decided to", " ", "Introduce LRU cache", ".">>,
                           <<"decided to", " ", "introduce LRU cache", ".">>,
                           <<"decided to", " ", "Add cache", ".">>,
                           <<"choosing", " ", "Trade-offs", ".">>,
                           <<"going with", " ", "Medium sized note", ".">>,
                           <<"however", ",", " ", "Memory usage increases", " ", " ", ".">>,
                           <<"however", ",", " ", "Memory usage increases", ".">> >>),
           UserMsg(<< <<"must", " ", "Add caching layer", ".", " ",
                        "should", " ", "add caching layer", ".", " ",
                        "must", " ", "Add caching layer", " ", ".">> >>) >>)

(* A session that states twelve decisions, the first of them twice.        *)
ManyPhrases ==
    << "Use module 01", "Use module 02", "Use module 01", "Use module 03",
       "Use module 04", "Use module 05", "Use module 06", "Use module 07",
       "Use module 08", "Use module 09", "Use module 10", "Use module 11",
       "Use module 12" >>

ManyPhrasesFile ==
    JsonlFile("many-phrases", 1,
        << AssistantMsg([i \in 1..Len(ManyPhrases) |->
                             <<"decided to", " ", ManyPhrases[i], ".">>]) >>)

(* A session whose todo list is written twice: the pending task of the     *)
(* first list is completed in the second.                                  *)
RewrittenTodosFile ==
    JsonlFile("todos-rewritten", 1,
        << TodosMsg(<< Todo(Some(<<"Write tests">>), None, None, "pending") >>),
           AssistantMsg(<< <<"Notes">> >>),
           TodosMsg(<< Todo(Some(<<"Write tests">>), None, None, "completed"),
                       Todo(Some(<<"Add cache">>), None, None, "completed") >>) >>)

(* Sessions with one summary message, after and before the user's request. *)
SummaryLastFile ==
    JsonlFile("summary-last", 1,
        << UserMsg(<< <<"Add caching layer">> >>),
           SummaryMsg(<< <<"Summary">> >>) >>)

SummaryFirstFile ==
    JsonlFile("summary-first", 1,
        << SummaryMsg(<< <<"Summary">> >>),
           UserMsg(<< <<"Add caching layer">> >>) >>)

(* A session of six messages without todos.                                *)
MidChatFile ==
    JsonlFile("mid", 1,
              [i \in 1..6 |-> IF i % 2 = 1 THEN ChatLines[1] ELSE ChatLines[3]])

ProjectOptions ==
    { << >>, << ChatFile >>, << ChatFile, NullFile >>, << BlankFile >>,
      << BigChatFile >>, << InvalidFile >>, << ScalarFile >>, << TasksFile >>,
      << BlankFile, ChatFile >>, << SummaryLastFile >>, << SummaryFirstFile >>,
      << MidChatFile >>, << PhrasesFile >>, << ManyPhrasesFile >>,
      << RewrittenTodosFile >> }

ProviderFsStates ==
    FsStates
    \cup {FileSystem(TRUE, b, FALSE, << >>, {}) : b \in BrainOptions}
    \cup {FileSystem(FALSE, << >>, TRUE, j, {}) : j \in ProjectOptions}
    \cup {FileSystem(FALSE, << >>, FALSE, << >>, {a}) : a \in AiderFiles}

ProviderInit ==
    /\ providers = << >>
    /\ env = ""
    /\ fs \in ProviderFsStates
    /\ pc = "Idle"
    /\ mode = "none"
    /\ idx = 0
    /\ trace = << >>
    /\ result = None
    /\ probe = NoProbe
    /\ detected = {}
    /\ prompt = None

ProbeDetect(name) ==
    /\ \E io \in IoFaults :
         LET out == ProviderDetect(name, fs, io) IN
         /\ probe' = Probe(name, "detect", io, out.t, out.t = "ret" /\ out.v,
                           None, name \in detected)
         /\ detected' = IF out.t = "ret" /\ out.v
                        THEN detected \cup {name} ELSE detected \ {name}
    /\ UNCHANGED <<providers, env, fs, pc, mode, idx, trace, result, prompt>>

ProbeCollect(name) ==
    /\ \E io \in IoFaults :
         LET out == ProviderCollect(name, fs, io) IN
         probe' = Probe(name, "collect", io, out.t, FALSE, Returned(out),
                        name \in detected)
    /\ UNCHANGED <<providers, env, fs, pc, mode, idx, trace, result, detected, prompt>>

(* The files change between two calls (what detect() saw may be gone when *)
(* collect() runs); probe describes a call on the current files only.      *)
ProbeFsChange ==
    /\ fs' \in ProviderFsStates \ {fs}
    /\ probe' = NoProbe
    /\ UNCHANGED <<providers, env, pc, mode, idx, trace, result, detected, prompt>>

ProviderNext ==
    \/ \E name \in ConcreteProviders : ProbeDetect(name)
    \/ \E name \in ConcreteProviders : ProbeCollect(name)
    \/ ProbeFsChange

ProviderSpec == ProviderInit /\ [][ProviderNext]_vars


----------------------------------------------------------------------------
(* Properties of the registry (Spec, FairSpec).                            *)

Positions == 1..Len(trace)

IsCall(k, op) == trace[k].op = op /\ trace[k].ph = "call"

(* detect() of provider i returned true at position k.                     *)
DetectedAt(k, i) ==
    /\ trace[k].i = i
    /\ trace[k].op = "detect"
    /\ trace[k].ph = "ret"
    /\ trace[k].ok

(* detect() of provider i returned false or threw at position k.           *)
NotDetectedAt(k, i) ==
    /\ trace[k].i = i
    /\ trace[k].op = "detect"
    /\ \/ trace[k].ph = "throw"
       \/ trace[k].ph = "ret" /\ ~trace[k].ok

(* collect() of provider i returned a non-null bundle at position k.       *)
CollectedAt(k, i) ==
    /\ trace[k].i = i
    /\ trace[k].op = "collect"
    /\ trace[k].ph = "ret"
    /\ IsSome(trace[k].b)

(* detectAndCollect has returned.                                          *)
HasReturned == pc \in {"Collected", "Exhausted"}

(* The providers that detected and collected a non-null bundle.            *)
Successful ==
    {i \in 1..Len(providers) :
        /\ \E k \in Positions : DetectedAt(k, i)
        /\ \E k \in Positions : CollectedAt(k, i)}

(* C1: in auto mode detectAndCollect returns exactly the bundle collected  *)
(* by the first provider, in registration order, whose detect() returned   *)
(* true and whose collect() returned a non-null bundle, unmodified and     *)
(* whatever its confidence; it returns null if and only if there is no     *)
(* such provider.                                                          *)
C1_AutoReturnsFirstSuccess ==
    (mode = "auto" /\ HasReturned) =>
        /\ (result = None) <=> (Successful = {})
        /\ Successful # {} =>
             LET first == CHOOSE i \in Successful : \A j \in Successful : i <= j
             IN  \E k \in Positions : CollectedAt(k, first) /\ result = trace[k].b

(* A low-confidence bundle was returned although a provider had failed     *)
(* before and another one, never tried, is registered after.               *)
C1_Witness ==
    /\ mode = "auto"
    /\ pc = "Collected"
    /\ IsSome(result)
    /\ result[1].confidence < 50
    /\ idx > 1
    /\ idx < Len(providers)

(* C2: in auto mode the providers are called one at a time, in             *)
(* registration order starting with the first registered (register         *)
(* appends), each entry's detect() at most once, and nothing is called     *)
(* once a collect() has returned a non-null bundle.                        *)
C2_TraceSequential ==
    mode = "auto" =>
        /\ \A k \in Positions :
             /\ trace[k].ph # "call" =>
                  /\ k > 1
                  /\ trace[k - 1].ph = "call"
                  /\ trace[k - 1].i = trace[k].i
                  /\ trace[k - 1].op = trace[k].op
             /\ (trace[k].ph = "call" /\ k > 1) => trace[k - 1].ph # "call"
             /\ k > 1 => /\ trace[k - 1].i <= trace[k].i
                         /\ trace[k].i <= trace[k - 1].i + 1
             /\ (\E i \in 1..Len(providers) : CollectedAt(k, i)) => k = Len(trace)
        /\ trace # << >> => trace[1].i = 1
        /\ \A i \in 1..Len(providers) :
             Cardinality({k \in Positions : trace[k].i = i /\ IsCall(k, "detect")}) <= 1

C2_AutoSequential ==
    /\ []C2_TraceSequential
    /\ [][providers' # providers =>
            /\ Len(providers') > Len(providers)
            /\ SubSeq(providers', 1, Len(providers)) = providers
            /\ \A i \in 1..Len(providers') : providers'[i] \in ProviderNames]_vars

(* The second provider's bundle was returned after the first had detected  *)
(* and collected null, and a third provider is registered.                 *)
C2_Witness ==
    /\ mode = "auto"
    /\ pc = "Collected"
    /\ Len(providers) = 3
    /\ idx = 2
    /\ \E k \in Positions : DetectedAt(k, 1)
    /\ \E k \in Positions :
         trace[k].i = 1 /\ trace[k].op = "collect" /\ trace[k].ph = "ret"

(* C3: in explicit mode only the named provider is ever called, and        *)
(* detectAndCollect returns null when that provider is not registered or   *)
(* its detect() did not return true, whatever the other providers would    *)
(* do.                                                                     *)
C3_ExplicitNeverFallsBack ==
    mode = "explicit" =>
        /\ \A k \in Positions : providers[trace[k].i] = env
        /\ HasReturned =>
             /\ (\A j \in 1..Len(providers) : providers[j] # env) =>
                  (result = None /\ trace = << >>)
             /\ (~\E k \in Positions : DetectedAt(k, trace[k].i)) => result = None

(* The named provider did not detect; a registered Antigravity provider    *)
(* would have detected and collected a bundle.                             *)
C3_Witness ==
    /\ mode = "explicit"
    /\ pc = "Exhausted"
    /\ \E k \in Positions : NotDetectedAt(k, trace[k].i)
    /\ \E j \in 1..Len(providers) : providers[j] = "antigravity"
    /\ AntigravityDetect(fs, "none").v
    /\ IsSome(AntigravityCollect(fs, "none").v)

(* C4: in both modes collect() of a provider is called only after that     *)
(* provider's detect() returned true in the same invocation; a provider    *)
(* whose detect() returned false or threw never has collect() called.      *)
C4_CollectOnlyAfterDetect ==
    \A k \in Positions :
        /\ IsCall(k, "collect") => \E j \in 1..(k - 1) : DetectedAt(j, trace[k].i)
        /\ NotDetectedAt(k, trace[k].i) =>
             ~\E l \in Positions : trace[l].i = trace[k].i /\ IsCall(l, "collect")

(* A provider's detect() threw and a later provider's collect() was called.*)
C4_Witness ==
    /\ \E k \in Positions : trace[k].op = "detect" /\ trace[k].ph = "throw"
    /\ \E k \in Positions : trace[k].op = "detect" /\ trace[k].ph = "ret" /\ ~trace[k].ok
    /\ \E k \in Positions : IsCall(k, "collect")

(* C5: a provider's exception never leaves the registry: in auto mode the  *)
(* throwing provider counts as failed and the next registered provider is  *)
(* tried, in explicit mode the result is null.                             *)
C5_FailuresNeverPropagate ==
    /\ pc # "Threw"
    /\ \A k \in Positions :
         trace[k].ph = "throw" =>
            /\ mode = "auto" =>
                 IF k < Len(trace)
                 THEN /\ IsCall(k + 1, "detect")
                      /\ trace[k + 1].i = trace[k].i + 1
                 ELSE \/ pc = "Failed" /\ idx = trace[k].i
                      \/ pc = "Trying" /\ idx = trace[k].i + 1
                      \/ /\ pc = "Exhausted"
                         /\ trace[k].i = Len(providers)
                         /\ result = None
            /\ mode = "explicit" =>
                 /\ k = Len(trace)
                 /\ pc = "Exhausted"
                 /\ result = None

(* collect() of one provider threw and the next provider's bundle was      *)
(* returned.                                                               *)
C5_Witness ==
    /\ mode = "auto"
    /\ pc = "Collected"
    /\ \E k \in Positions : trace[k].op = "collect" /\ trace[k].ph = "throw"
    /\ \E k \in Positions : trace[k].op = "detect" /\ trace[k].ph = "throw"


(* The state of the invocation in the terms of the design's state machine:  *)
(* a provider being tried, whichever of its calls is pending.              *)
Machine(p) ==
    IF p \in {"Trying", "Detecting", "Detected", "Collecting"} THEN "Trying" ELSE p

MachineTransitions ==
    { <<"Idle", "Selecting">>,
      <<"Selecting", "Trying">>, <<"Selecting", "Exhausted">>,
      <<"Trying", "Collected">>, <<"Trying", "Failed">>, <<"Trying", "Exhausted">>,
      <<"Failed", "Trying">>, <<"Failed", "Exhausted">>,
      <<"Collected", "Idle">>, <<"Exhausted", "Idle">> }

(* C6: every invocation follows Idle -> Selecting -> Trying(i) ->          *)
(* {Collected, Failed -> Trying(i+1), Exhausted}; the index of the         *)
(* provider tried only grows, so no provider is retried; Collected returns *)
(* a bundle and Exhausted returns null; and, every awaited call returning  *)
(* or throwing, the invocation ends in Collected or in Exhausted.          *)
C6_StateMachine ==
    /\ [][/\ Machine(pc') # Machine(pc) =>
               <<Machine(pc), Machine(pc')>> \in MachineTransitions
          /\ (Machine(pc) = "Trying" /\ Machine(pc') = "Trying") => idx' = idx
          /\ (pc = "Failed" /\ pc' = "Trying") => idx' = idx + 1
          /\ (pc = "Selecting" /\ pc' = "Trying") => idx' >= 1]_vars
    /\ [](pc = "Collected" => IsSome(result))
    /\ [](pc = "Exhausted" => result = None)
    /\ [](pc \in {"Idle", "Selecting", "Trying", "Detecting", "Detected",
                  "Collecting", "Failed", "Collected", "Exhausted"})
    /\ (pc = "Selecting") ~> HasReturned

(* Three providers were tried in turn and the third one's bundle returned. *)
C6_Witness ==
    /\ pc = "Collected"
    /\ mode = "auto"
    /\ idx = 3
    /\ \E k \in Positions : trace[k].i = 1 /\ trace[k].ph # "call"
    /\ \E k \in Positions : trace[k].i = 2 /\ trace[k].ph # "call"

(* C10: the stub providers never contribute a bundle: Cursor's detect()    *)
(* returns false and Aider's collect() returns null whenever the registry  *)
(* calls them, no bundle collected or returned names cursor or aider as    *)
(* its source, and once Aider has detected the registry goes on to the     *)
(* next provider (auto) or returns null (explicit).                        *)
C10_StubsNeverContribute ==
    /\ IsSome(result) => result[1].source \notin {"cursor", "aider"}
    /\ \A k \in Positions :
         LET name == providers[trace[k].i] IN
         /\ IsSome(trace[k].b) => trace[k].b[1].source \notin {"cursor", "aider"}
         /\ (name = "cursor" /\ trace[k].op = "detect" /\ trace[k].ph # "call") =>
              (trace[k].ph = "ret" /\ ~trace[k].ok)
         /\ (name = "aider" /\ trace[k].op = "collect" /\ trace[k].ph # "call") =>
              /\ trace[k].ph = "ret"
              /\ trace[k].b = None
              /\ \E j \in 1..(k - 1) : DetectedAt(j, trace[k].i)
              /\ mode = "auto" =>
                   IF k < Len(trace)
                   THEN /\ IsCall(k + 1, "detect")
                        /\ trace[k + 1].i = trace[k].i + 1
                   ELSE \/ pc = "Failed" /\ idx = trace[k].i
                        \/ pc = "Trying" /\ idx = trace[k].i + 1
                        \/ /\ pc = "Exhausted"
                           /\ trace[k].i = Len(providers)
                           /\ result = None
              /\ mode = "explicit" =>
                   /\ k = Len(trace)
                   /\ pc = "Exhausted"
                   /\ result = None
         /\ (name = "aider" /\ DetectedAt(k, trace[k].i)) =>
              IF k < Len(trace)
              THEN IsCall(k + 1, "collect") /\ trace[k + 1].i = trace[k].i
              ELSE pc = "Detected" /\ idx = trace[k].i

(* Cursor did not detect, Aider detected and collected null, and the       *)
(* bundle of the provider registered after them was returned.              *)
C10_Witness ==
    /\ mode = "auto"
    /\ pc = "Collected"
    /\ idx = 3
    /\ providers[1] = "cursor"
    /\ providers[2] = "aider"
    /\ \E k \in Positions : NotDetectedAt(k, 1)
    /\ \E k \in Positions : DetectedAt(k, 2)
    /\ \E k \in Positions :
         trace[k].i = 2 /\ trace[k].op = "collect" /\ trace[k].ph = "ret"

----------------------------------------------------------------------------
(* Properties of the providers called directly (ProviderSpec).             *)

(* The call detect() of a provider met an error inside.                    *)
DetectMetError ==
    \/ probe.name = "antigravity" /\ fs.brain /\ probe.io = "glob"
    \/ probe.name = "claude-code" /\ fs.projects /\ probe.io = "glob"

(* C7: detect() of Antigravity, ClaudeCode, Cursor and Aider never throws: *)
(* whatever the files and whatever fails inside, it returns a boolean,     *)
(* and false when the root directory is missing or an error was met.       *)
C7_DetectNeverThrows ==
    probe.op = "detect" =>
        /\ probe.t = "ret"
        /\ probe.ok \in BOOLEAN
        /\ DetectMetError => ~probe.ok
        /\ (probe.name = "antigravity" /\ ~fs.brain) => ~probe.ok
        /\ (probe.name = "claude-code" /\ ~fs.projects) => ~probe.ok
        /\ probe.name = "cursor" => ~probe.ok

(* The glob of Antigravity's detect() failed over a brain directory that   *)
(* holds sessions.                                                         *)
C7_Witness ==
    /\ probe.op = "detect"
    /\ probe.name = "antigravity"
    /\ probe.io = "glob"
    /\ fs.brain
    /\ Len(fs.sessions) > 0
    /\ ~probe.ok

IsList(x) == DOMAIN x = 1..Len(x)

(* Every field of the IntentBundle interface is there and has its type.    *)
WellFormed(b, name) ==
    /\ DOMAIN b = {"goals", "tasks", "decisions", "tradeoffs", "constraints",
                   "rawNotes", "confidence", "source"}
    /\ IsList(b.goals)
    /\ IsList(b.tasks)
    /\ IsList(b.decisions)
    /\ IsList(b.tradeoffs)
    /\ IsList(b.constraints)
    /\ IsList(b.rawNotes) /\ Len(b.rawNotes) >= 1
    /\ b.confidence \in Int
    /\ b.source = name

(* C8: collect() of every provider, over any files, with or without a      *)
(* detect() that returned true before it and whatever went away since,     *)
(* never throws and returns null or a bundle with all its fields: five     *)
(* lists, rawNotes a string, confidence a number, source the provider's    *)
(* name.                                                                   *)
C8_CollectNullOrWellFormed ==
    probe.op = "collect" =>
        /\ probe.t = "ret"
        /\ probe.b = None \/ (IsSome(probe.b) /\ WellFormed(probe.b[1], probe.name))

(* ClaudeCode's collect(), never preceded by a detect() that returned      *)
(* true, returned a bundle with goals.                                     *)
C8_Witness ==
    /\ probe.op = "collect"
    /\ probe.name = "claude-code"
    /\ ~probe.prior
    /\ IsSome(probe.b)
    /\ probe.b[1].goals # << >>

(* No artifact was found by the collect() that probe describes.            *)
NoArtifacts ==
    \/ /\ probe.name = "antigravity"
       /\ Len(fs.sessions) > 0
       /\ LET latest == SortByMtimeDesc(fs.sessions)[1]
          IN  latest.task = None /\ latest.plan = None
    \/ /\ probe.name = "claude-code"
       /\ Len(fs.jsonl) > 0
       /\ ParseJsonl(SortByMtimeDesc(fs.jsonl)[1].lines) = << >>

(* C9: the confidence of every bundle a provider returns lies in [0,1]     *)
(* (0..100 hundredths), and is 0 when no artifact was found: neither       *)
(* task.md nor implementation_plan.md (Antigravity), no parsed message     *)
(* (ClaudeCode).                                                           *)
C9_ConfidenceInUnitInterval ==
    (probe.op = "collect" /\ IsSome(probe.b)) =>
        /\ probe.b[1].confidence \in 0..100
        /\ NoArtifacts => probe.b[1].confidence = 0

(* Antigravity returned a bundle for a session directory that holds        *)
(* neither file.                                                           *)
C9_Witness ==
    /\ probe.op = "collect"
    /\ probe.name = "antigravity"
    /\ IsSome(probe.b)
    /\ NoArtifacts
    /\ probe.b[1].confidence = 0

----------------------------------------------------------------------------
(* Properties of the bundles' lists (ProviderSpec).                        *)

NoRepeats(list) == \A i, j \in 1..Len(list) : list[i] = list[j] => i = j

(* A bundle was returned by the collect() that probe describes.            *)
Collected(name) == probe.op = "collect" /\ probe.name = name /\ IsSome(probe.b)

(* C11: in every bundle Antigravity or ClaudeCode returns, decisions,      *)
(* tradeoffs and constraints each hold no two equal entries and at most    *)
(* 10 entries.                                                             *)
C11_FreeTextDedupedAndCapped ==
    (Collected("antigravity") \/ Collected("claude-code")) =>
        \A list \in {probe.b[1].decisions, probe.b[1].tradeoffs,
                     probe.b[1].constraints} :
            NoRepeats(list) /\ Len(list) <= 10

(* The task an entry of tasks names: the text after its check box.         *)
TaskText(entry) == ChecklistMatch(entry)

(* C12: duplicate tasks are suppressed per provider: an Antigravity        *)
(* bundle never lists the same checklist text twice; a ClaudeCode bundle   *)
(* lists no two equal entries, and a task emitted from a todos entry is    *)
(* not emitted again from a checklist line that names it (nor the other    *)
(* way round).                                                             *)
C12_TasksDeduped ==
    /\ Collected("antigravity") => NoRepeats(probe.b[1].tasks)
    /\ Collected("claude-code") =>
         /\ NoRepeats(probe.b[1].tasks)
         /\ NoRepeats([i \in 1..Len(probe.b[1].tasks) |->
                           TaskText(probe.b[1].tasks[i])])

(* The candidate is at least as recently modified as every other one.      *)
IsNewest(entries, i) == \A j \in 1..Len(entries) : entries[i].mtime >= entries[j].mtime

(* The bundle the files of one session directory give.                     *)
SessionBundle(session) ==
    AgBundle((IF IsSome(session.task) THEN 1 ELSE 0)
             + (IF IsSome(session.plan) THEN 1 ELSE 0),
             IF IsSome(session.task) THEN session.task[1] ELSE EmptyText,
             IF IsSome(session.plan) THEN session.plan[1] ELSE EmptyText)

(* C13: of several sessions each provider collects from a most recently    *)
(* modified one, and from that one only: Antigravity's bundle is the       *)
(* bundle of a session directory whose modification time is at least      *)
(* every other's, ClaudeCode's the bundle of such a .jsonl file.           *)
C13_NewestSessionWins ==
    /\ Collected("antigravity") =>
         \E i \in 1..Len(fs.sessions) :
             /\ IsNewest(fs.sessions, i)
             /\ probe.b[1] = SessionBundle(fs.sessions[i])
    /\ Collected("claude-code") =>
         \E i \in 1..Len(fs.jsonl) :
             /\ IsNewest(fs.jsonl, i)
             /\ probe.b[1] = CcBundle(ParseJsonl(fs.jsonl[i].lines))

(* Two sessions that give different bundles, the newer one listed last:    *)
(* the newer one's bundle was returned.                                    *)
C13_Witness ==
    /\ Collected("antigravity")
    /\ Len(fs.sessions) = 2
    /\ fs.sessions[2].mtime > fs.sessions[1].mtime
    /\ probe.b[1] = SessionBundle(fs.sessions[2])
    /\ probe.b[1] # SessionBundle(fs.sessions[1])

(* C15: ClaudeCode's parsing recovers from a bad line locally: whatever    *)
(* the lines of the newest session file hold, collect() returns the bundle *)
(* built from the lines that parse, in file order, never null.             *)
C15_JsonlRecoversLocally ==
    (/\ probe.op = "collect"
     /\ probe.name = "claude-code"
     /\ probe.io = "none"
     /\ Len(fs.jsonl) > 0) =>
        LET lines == SortByMtimeDesc(fs.jsonl)[1].lines
            parsed == SelectSeq(lines, LAMBDA l : l.k \notin {"blank", "invalid"})
        IN  /\ ParseJsonl(lines) = parsed
            /\ IsSome(probe.b)
            /\ probe.b[1].source = "claude-code"

(* The messages collect() parses from the newest session file.            *)
NewestMessages == ParseJsonl(SortByMtimeDesc(fs.jsonl)[1].lines)

(* The todos of all messages, in encounter order.                          *)
RECURSIVE FlatTodos(_)
FlatTodos(messages) ==
    IF messages = << >> THEN << >>
    ELSE (IF IsSome(Head(messages).todos) THEN Head(messages).todos[1] ELSE << >>)
         \o FlatTodos(Tail(messages))

(* A todo's description: the first present of content, task, description. *)
FirstPresent(todo) ==
    IF IsSome(todo.content) THEN todo.content
    ELSE IF IsSome(todo.task) THEN todo.task
    ELSE todo.description

(* One rendered entry per distinct description, in encounter order.        *)
RECURSIVE ExpectedTodoTasks(_, _)
ExpectedTodoTasks(todos, i) ==
    IF i > Len(todos) THEN << >>
    ELSE (IF /\ IsSome(FirstPresent(todos[i]))
             /\ \A j \in 1..(i - 1) : FirstPresent(todos[j]) # FirstPresent(todos[i])
          THEN << (IF todos[i].status = "completed"
                   THEN <<"[", "x", "]", " ">> ELSE <<"[", " ", "]", " ">>)
                  \o FirstPresent(todos[i])[1] >>
          ELSE << >>)
         \o ExpectedTodoTasks(todos, i + 1)

(* a is b with some entries left out.                                      *)
RECURSIVE IsSubSeq(_, _)
IsSubSeq(a, b) ==
    IF a = << >> THEN TRUE
    ELSE IF b = << >> THEN FALSE
    ELSE IF Head(a) = Head(b) THEN IsSubSeq(Tail(a), Tail(b))
    ELSE IsSubSeq(a, Tail(b))

(* C16: ClaudeCode's tasks hold, in encounter order over all messages'     *)
(* todos, one entry per distinct description (first present of content,    *)
(* task, description; exact text), "[x] text" for a completed todo and     *)
(* "[ ] text" otherwise; with no tool_result message they hold nothing     *)
(* else.                                                                   *)
C16_TodoTasksRendered ==
    Collected("claude-code") =>
        LET expected == ExpectedTodoTasks(FlatTodos(NewestMessages), 1) IN
        /\ IsSubSeq(expected, probe.b[1].tasks)
        /\ (\A i \in 1..Len(NewestMessages) : NewestMessages[i].type # "tool_result")
               => probe.b[1].tasks = expected

(* Texts of the messages that qualify as goals of the newest session.      *)
UserGoalTexts ==
    SelectSeq([i \in 1..Len(NewestMessages) |->
                   IF NewestMessages[i].type = "user" /\ HasMContent(NewestMessages[i])
                   THEN Some(ExtractTextContent(NewestMessages[i].mcontent[1]))
                   ELSE None],
              LAMBDA o : IsSome(o) /\ TextLen(o[1]) < 500)

SummaryGoalTexts ==
    SelectSeq([i \in 1..Len(NewestMessages) |->
                   IF NewestMessages[i].type = "summary"
                   THEN NewestMessages[i].summary ELSE None],
              LAMBDA o : IsSome(o) /\ ~IsEmptyText(o[1]) /\ TextLen(o[1]) < 1000)

(* C17: ClaudeCode goals are the first user message under 500 characters   *)
(* plus the text (cut to 500 characters) of every summary under 1000       *)
(* characters, at most 5 in all; the user message is among the goals       *)
(* wherever the summaries stand in the log.                                *)
C17_GoalsUserAndSummaries ==
    Collected("claude-code") =>
        LET goals == probe.b[1].goals
            summaries == [i \in 1..Len(SummaryGoalTexts) |->
                              Substring(SummaryGoalTexts[i][1], 500)]
        IN  /\ Len(goals) <= 5
            /\ \A i \in 1..Len(goals) :
                   \/ UserGoalTexts # << >> /\ goals[i] = UserGoalTexts[1][1]
                   \/ \E k \in 1..Len(summaries) : goals[i] = summaries[k]
            /\ UserGoalTexts # << >> =>
                   \E i \in 1..Len(goals) : goals[i] = UserGoalTexts[1][1]
            /\ Len(summaries) < 5 =>
                   \A k \in 1..Len(summaries) :
                       \E i \in 1..Len(goals) : goals[i] = summaries[k]

(* The score the confidence rule assigns to a message sequence, in         *)
(* hundredths, counted from the messages themselves.                       *)
Bonus(indices, points) == IF indices # {} THEN points ELSE 0

ScoreOf(msgs) ==
    LET all == 1..Len(msgs)
        sum == 30
               + Bonus({i \in all : i > 5}, 20)
               + Bonus({i \in all : i > 20}, 10)
               + Bonus({i \in all : msgs[i].todos # None /\ msgs[i].todos[1] # << >>}, 20)
               + Bonus({i \in all : msgs[i].type = "user"}, 10)
               + Bonus({i \in all : msgs[i].type = "assistant"}, 10)
    IN  IF msgs = << >> THEN 0 ELSE IF sum > 100 THEN 100 ELSE sum

(* C18: ClaudeCode confidence is min(1.0, 0.3 + 0.2 for more than 5        *)
(* messages + 0.1 for more than 20 + 0.2 for a non-empty todos array + 0.1 *)
(* for a user message + 0.1 for an assistant message), and 0 for an empty  *)
(* sequence: on every prefix of the newest session's messages, and in the  *)
(* collected bundle; a session of at most 5 messages with a user message,  *)
(* an assistant message and todos scores 0.7.                              *)
C18_ClaudeCodeConfidence ==
    /\ fs.jsonl # << >> =>
           \A n \in 0..Len(NewestMessages) :
               LET msgs == SubSeq(NewestMessages, 1, n)
               IN  /\ CcCalculateConfidence(msgs) = ScoreOf(msgs)
                   /\ (/\ n \in 1..5
                       /\ \E i \in 1..n : msgs[i].type = "user"
                       /\ \E i \in 1..n : msgs[i].type = "assistant"
                       /\ \E i \in 1..n : msgs[i].todos # None /\ msgs[i].todos[1] # << >>)
                          => CcCalculateConfidence(msgs) = 70
    /\ Collected("claude-code") => probe.b[1].confidence = ScoreOf(NewestMessages)

C18_Witness ==
    /\ Collected("claude-code")
    /\ Len(NewestMessages) \in 1..5
    /\ \E i \in 1..Len(NewestMessages) : NewestMessages[i].type = "user"
    /\ \E i \in 1..Len(NewestMessages) : NewestMessages[i].type = "assistant"
    /\ \E i \in 1..Len(NewestMessages) :
           NewestMessages[i].todos # None /\ NewestMessages[i].todos[1] # << >>
    /\ probe.b[1].confidence = 70

(* The artifact files a session directory holds, and their combined        *)
(* length.                                                                  *)
ArtifactsOf(session) == {a \in {"task", "plan"} : session[a] # None}

CombinedLength(session) ==
    (IF session.task # None THEN TextLen(session.task[1]) ELSE 0)
    + (IF session.plan # None THEN TextLen(session.plan[1]) ELSE 0)

(* The score the Antigravity rule assigns to a session directory, in       *)
(* hundredths.                                                             *)
AgScoreOf(session) ==
    LET half == 50 * Cardinality(ArtifactsOf(session))
    IN  IF ArtifactsOf(session) = {} THEN 0
        ELSE IF CombinedLength(session) > 1000
             THEN (IF half + 10 > 100 THEN 100 ELSE half + 10)
        ELSE IF CombinedLength(session) < 100 THEN half \div 2
        ELSE half

(* C19: Antigravity confidence is 0 when neither artifact file exists;     *)
(* otherwise it is the number of existing artifact files over 2, plus 0.1  *)
(* (capped at 1.0) when task.md and implementation_plan.md together hold   *)
(* more than 1000 characters, and halved when they hold fewer than 100.    *)
C19_AntigravityConfidence ==
    Collected("antigravity") =>
        \E i \in 1..Len(fs.sessions) :
            /\ IsNewest(fs.sessions, i)
            /\ probe.b[1] = SessionBundle(fs.sessions[i])
            /\ probe.b[1].confidence = AgScoreOf(fs.sessions[i])

(* Both files exist and hold more than 1000 characters: the boost is       *)
(* capped and the bundle's confidence is 1.0.                              *)
C19_Witness ==
    /\ Collected("antigravity")
    /\ Len(fs.sessions) = 1
    /\ Cardinality(ArtifactsOf(fs.sessions[1])) = 2
    /\ CombinedLength(fs.sessions[1]) > 1000
    /\ probe.b[1].confidence = 100

(* The newest session directory holds the five-line caching plan and an    *)
(* empty task.md.                                                          *)
EmptyTaskScenario ==
    /\ Collected("antigravity")
    /\ \A i \in 1..Len(fs.sessions) :
           IsNewest(fs.sessions, i) =>
               /\ fs.sessions[i].task = Some(EmptyText)
               /\ fs.sessions[i].plan = Some(CachingPlan)

(* C20 as stated: with the five-line caching plan and an empty task.md,   *)
(* both files count and the bundle's confidence is 1.0.                    *)
C20_EmptyTaskScoresOne ==
    EmptyTaskScenario =>
        /\ probe.b[1] = AgBundle(2, EmptyText, CachingPlan)
        /\ probe.b[1].confidence = 100

(* C20: an existing-but-empty task.md counts as a full artifact: with the  *)
(* five-line caching plan and an empty task.md both files count, and the   *)
(* bundle's confidence is 0.5, the base 1.0 of two artifacts halved        *)
(* because the two files together hold fewer than 100 characters (twice    *)
(* the 0.25 the plan alone would score).                                   *)
C20_EmptyTaskCountsAsArtifact ==
    EmptyTaskScenario =>
        /\ probe.b[1] = AgBundle(2, EmptyText, CachingPlan)
        /\ TextLen(EmptyText) + TextLen(CachingPlan) < 100
        /\ probe.b[1].confidence = 50
        /\ probe.b[1].confidence = 2 * AgScoreOf(Session("s", 1, None, Some(CachingPlan)))

C20_Witness ==
    /\ EmptyTaskScenario
    /\ fs.sessions = << CachingSession >>
    /\ probe.b[1].goals # << >>
    /\ probe.b[1].tasks = << >>
    /\ probe.b[1].confidence = 50

(* The plan of the session Antigravity collected from.                     *)
NewestPlan ==
    LET latest == SortByMtimeDesc(fs.sessions)[1]
    IN  IF latest.plan = None THEN EmptyText ELSE latest.plan[1]

IsH2(line) == Len(line) >= 2 /\ line[1] = "#" /\ line[2] = "#"

IsHeading(line) == line # << >> /\ line[1] = "#"

IsQuote(line) == line # << >> /\ line[1] = ">"

(* Line i lies inside a section opened by a heading of the given names:    *)
(* the nearest '##' heading above it is one of them.                       *)
InSection(lines, i, heads) ==
    \E j \in 1..(i - 1) :
        /\ MatchesH2(lines[j], heads)
        /\ \A k \in (j + 1)..i : ~IsH2(lines[k])

(* The trimmed lines of the sections of the given names, in document       *)
(* order.                                                                  *)
RECURSIVE SectionLines(_, _, _, _)
SectionLines(lines, i, heads, noQuotes) ==
    IF i > Len(lines) THEN << >>
    ELSE (IF /\ InSection(lines, i, heads)
             /\ Trim(lines[i]) # << >>
             /\ ~IsHeading(lines[i])
             /\ ~(noQuotes /\ IsQuote(lines[i]))
          THEN << Trim(lines[i]) >> ELSE << >>)
         \o SectionLines(lines, i + 1, heads, noQuotes)

(* C21: Antigravity decisions and constraints are, in document order,      *)
(* exactly the trimmed non-empty non-heading lines (for decisions also     *)
(* non-blockquote lines) inside a section opened by a matching '##'        *)
(* heading and closed by the next '##' heading: no line outside such a     *)
(* section, every line inside any such section.                            *)
C21_SectionScopedExtraction ==
    Collected("antigravity") =>
        /\ probe.b[1].decisions = SectionLines(NewestPlan, 1, DecisionHeads, TRUE)
        /\ probe.b[1].constraints = SectionLines(NewestPlan, 1, ConstraintHeads, FALSE)

(* The line is an alert marker: '> [!IMPORTANT]', '> [!WARNING]' or         *)
(* '> [!CAUTION]'.                                                         *)
IsAlertMarker(line) ==
    \E word \in {"IMPORTANT", "WARNING", "CAUTION"} :
        \E gap \in {<< >>, <<" ">>} :
            line = <<">">> \o gap \o <<"[", "!", word, "]">>

(* The line with a leading '>' and the white space around it removed.      *)
Unquoted(line) == IF IsQuote(line) THEN Trim(Tail(line)) ELSE Trim(line)

(* C22: Antigravity tradeoffs contain the lines of the Trade-offs section  *)
(* and, for each occurrence of an alert marker line anywhere in the plan,  *)
(* the non-empty line right after that occurrence with its leading '>'     *)
(* stripped, also when the same marker line occurs more than once.         *)
C22_AlertsInTradeoffs ==
    Collected("antigravity") =>
        LET tradeoffs == probe.b[1].tradeoffs
            section == SectionLines(NewestPlan, 1, TradeoffHeads, FALSE)
        IN  /\ \A k \in 1..Len(section) :
                   \E t \in 1..Len(tradeoffs) : tradeoffs[t] = section[k]
            /\ \A i \in 1..(Len(NewestPlan) - 1) :
                   (IsAlertMarker(NewestPlan[i]) /\ Unquoted(NewestPlan[i + 1]) # << >>)
                       => \E t \in 1..Len(tradeoffs) :
                              tradeoffs[t] = Unquoted(NewestPlan[i + 1])

(* C23: Antigravity goals are the text of the first '# ' heading line,     *)
(* marker stripped, followed by every non-empty non-heading line between   *)
(* a '## Summary' heading and the next '##' heading, in document order;    *)
(* the five-line caching plan with an empty task.md gives goals            *)
(* ['Add caching layer', 'Introduce LRU cache.'], tradeoffs                *)
(* ['Memory usage increases.'] and no tasks.                               *)
C23_GoalsHeadingAndSummary ==
    Collected("antigravity") =>
        LET tops == {i \in 1..Len(NewestPlan) :
                         /\ Len(NewestPlan[i]) >= 2
                         /\ NewestPlan[i][1] = "#"
                         /\ NewestPlan[i][2] = " "}
            first == CHOOSE i \in tops : \A j \in tops : i <= j
            title == IF tops = {} THEN << >>
                     ELSE << TrimStart(Tail(NewestPlan[first])) >>
        IN  /\ probe.b[1].goals
                   = title \o SectionLines(NewestPlan, 1, SummaryHeads, FALSE)
            /\ (/\ NewestPlan = CachingPlan
                /\ SortByMtimeDesc(fs.sessions)[1].task = Some(EmptyText)) =>
                   /\ probe.b[1].goals = << <<"Add caching layer">>,
                                            <<"Introduce LRU cache", ".">> >>
                   /\ probe.b[1].tradeoffs = << <<"Memory usage increases", ".">> >>
                   /\ probe.b[1].tasks = << >>

(* The phrases the patterns capture in the newest session, trimmed, in     *)
(* the order the provider meets them, before any phrase is dropped.        *)
RECURSIVE CapturedLoop(_, _, _, _)
CapturedLoop(messages, type, patterns, i) ==
    IF i > Len(messages) THEN << >>
    ELSE (IF messages[i].type = type /\ HasMContent(messages[i])
          THEN LET flat == Flatten(ExtractTextContent(messages[i].mcontent[1]))
                   RECURSIVE PerPattern(_)
                   PerPattern(k) ==
                       IF k > Len(patterns) THEN << >>
                       ELSE LET found == MatchAllFrom(flat, patterns[k], 1)
                            IN  [j \in 1..Len(found) |-> Trim(found[j])]
                                \o PerPattern(k + 1)
               IN  PerPattern(1)
          ELSE << >>)
         \o CapturedLoop(messages, type, patterns, i + 1)

(* The list is made of the captured phrases of admissible length, each     *)
(* once, in the order of their first capture, the first 10 of them.        *)
FirstTenDistinct(list, captured) ==
    LET ok == SelectSeq(captured, LAMBDA d : LineLen(d) > 10 /\ LineLen(d) < 200)
        firstAt(x) == CHOOSE k \in 1..Len(ok) :
                          ok[k] = x /\ \A j \in 1..(k - 1) : ok[j] # x
        rank(x) == Cardinality({ok[j] : j \in 1..(firstAt(x) - 1)})
    IN  /\ Len(list) <= 10
        /\ NoRepeats(list)
        /\ \A i \in 1..Len(list) :
               /\ \E k \in 1..Len(ok) : ok[k] = list[i]
               /\ list[i] = Trim(list[i])
               /\ rank(list[i]) = i - 1
        /\ \A k \in 1..Len(ok) :
               rank(ok[k]) < 10 => \E i \in 1..Len(list) : list[i] = ok[k]

(* C24: ClaudeCode decisions, tradeoffs and constraints keep a captured    *)
(* phrase only if its trimmed length is strictly between 10 and 200, and   *)
(* hold each kept phrase once, compared exactly after trimming, in order   *)
(* of first occurrence, the first 10 distinct ones: phrases that differ in *)
(* trailing white space are one entry, phrases that differ in letter case  *)
(* are two.                                                                *)
C24_PhrasesTrimmedDeduped ==
    Collected("claude-code") =>
        /\ FirstTenDistinct(probe.b[1].decisions,
                            CapturedLoop(NewestMessages, "assistant", DecisionPatterns, 1))
        /\ FirstTenDistinct(probe.b[1].tradeoffs,
                            CapturedLoop(NewestMessages, "assistant", TradeoffPatterns, 1))
        /\ FirstTenDistinct(probe.b[1].constraints,
                            CapturedLoop(NewestMessages, "user", ConstraintPatterns, 1))

(* Three decisions were captured, two of them alike but for a trailing     *)
(* blank and the third in another letter case: two entries remain.         *)
C24_Witness ==
    /\ Collected("claude-code")
    /\ LET captured == CapturedLoop(NewestMessages, "assistant", DecisionPatterns, 1)
       IN  /\ Len(captured) > 3
           /\ captured[1] = captured[2]
    /\ probe.b[1].decisions = << <<"Introduce LRU cache">>, <<"introduce LRU cache">> >>
    /\ probe.b[1].tradeoffs = << <<"Memory usage increases">> >>
    /\ probe.b[1].constraints = << <<"Add caching layer">>, <<"add caching layer">> >>

(* The entry a todo is rendered as.                                        *)
Rendered(todo) ==
    (IF todo.status = "completed" THEN <<"[", "x", "]", " ">>
     ELSE <<"[", " ", "]", " ">>) \o FirstPresent(todo)[1]

(* How many entries of the list equal the entry.                           *)
Occurrences(list, entry) == Cardinality({k \in 1..Len(list) : list[k] = entry})

(* C27: the completion marker of a ClaudeCode task is fixed by the first   *)
(* todos entry with its description: once that entry is emitted, a later   *)
(* todos entry with the same description and another status neither        *)
(* changes it nor adds one, so a task first pending and later completed    *)
(* stays "[ ] text".                                                       *)
C27_FirstStatusSticks ==
    Collected("claude-code") =>
        LET todos == FlatTodos(NewestMessages)
            tasks == probe.b[1].tasks
            noToolResults ==
                \A m \in 1..Len(NewestMessages) : NewestMessages[m].type # "tool_result"
        IN  \A i, j \in 1..Len(todos) :
                (/\ i < j
                 /\ IsSome(FirstPresent(todos[i]))
                 /\ FirstPresent(todos[j]) = FirstPresent(todos[i])
                 /\ \A h \in 1..(i - 1) : FirstPresent(todos[h]) # FirstPresent(todos[i])
                 /\ Occurrences(tasks, Rendered(todos[i])) > 0) =>
                    /\ Occurrences(tasks, Rendered(todos[i])) = 1
                    /\ (noToolResults /\ todos[j].status # todos[i].status) =>
                           Occurrences(tasks, Rendered(todos[j])) = 0

(* "Write tests" was written as pending and later as completed: the bundle *)
(* shows it as pending.                                                    *)
C27_Witness ==
    /\ Collected("claude-code")
    /\ LET todos == FlatTodos(NewestMessages)
       IN  /\ Len(todos) = 3
           /\ todos[1].status = "pending"
           /\ todos[2].status = "completed"
           /\ FirstPresent(todos[1]) = FirstPresent(todos[2])
    /\ probe.b[1].tasks = << <<"[", " ", "]", " ", "Write tests">>,
                             <<"[", "x", "]", " ", "Add cache">> >>

----------------------------------------------------------------------------
(* Properties of the context prompt (Spec).                                *)

HasLine(text, line) == \E i \in 1..Len(text) : text[i] = line

(* C14: buildContextPrompt always gives a prompt for what the registry     *)
(* returned: the fixed "No active AI session context found" notice for     *)
(* null, and for a bundle a prompt that includes rawNotes only when goals, *)
(* tasks, decisions, tradeoffs and constraints are all empty.              *)
C14_PromptFromRegistryOutput ==
    /\ pc \in {"Collected", "Exhausted"} => Len(BuildContextPrompt(result)) >= 1
    /\ IsSome(prompt) =>
           /\ result = None => prompt[1] = NoContextNotice
           /\ IsSome(result) =>
                /\ prompt[1][1][1] = "AI CONTEXT (Source: "
                /\ HasLine(prompt[1], <<"Additional Context:">>) =>
                     /\ result[1].goals = << >>
                     /\ result[1].tasks = << >>
                     /\ result[1].decisions = << >>
                     /\ result[1].tradeoffs = << >>
                     /\ result[1].constraints = << >>

(* A bundle holding nothing but rawNotes was returned and its prompt       *)
(* carries them.                                                           *)
C14_Witness ==
    /\ IsSome(result)
    /\ IsSome(prompt)
    /\ HasLine(prompt[1], <<"Additional Context:">>)
    /\ HasLine(prompt[1], <<"Notes">>)

----------------------------------------------------------------------------
(* Properties of getIntentContext (Spec).                                  *)

(* The identifiers the selection override accepts.                         *)
OverrideNames == {"antigravity", "claude-code", "cursor", "aider"}

(* C25: in the registry getIntentContext builds, every identifier the      *)
(* selection override accepts names a registered provider: with            *)
(* INTENT_PROVIDER set to one of them detectAndCollect runs in explicit    *)
(* mode and consults that provider (calls its detect()) instead of ending  *)
(* with 'provider not found'.                                              *)
C25_OverrideNamesResolve ==
    (providers = IntentContextProviders /\ env \in OverrideNames /\ HasReturned) =>
        /\ mode = "explicit"
        /\ \E k \in Positions : IsCall(k, "detect") /\ providers[trace[k].i] = env

(* The bundle of a session directory that holds neither artifact file.     *)
IsEmptyBundle(b) ==
    /\ b.goals = << >>
    /\ b.tasks = << >>
    /\ b.decisions = << >>
    /\ b.tradeoffs = << >>
    /\ b.constraints = << >>
    /\ b.rawNotes = EmptyText
    /\ b.confidence = 0
    /\ b.source = "antigravity"

(* The newest session directory holds neither task.md nor                  *)
(* implementation_plan.md.                                                 *)
NewestIsBare ==
    \A i \in 1..Len(fs.sessions) :
        IsNewest(fs.sessions, i) =>
            fs.sessions[i].task = None /\ fs.sessions[i].plan = None

(* C26: in auto mode with Antigravity registered first: a brain directory  *)
(* with at least one readable session directory makes Antigravity detect   *)
(* and collect a non-null bundle, which for a newest session without       *)
(* task.md and implementation_plan.md has five empty lists, empty rawNotes *)
(* and confidence 0; and the bundle Antigravity collects is what           *)
(* detectAndCollect returns, no later provider being tried.                *)
C26_AntigravityFirstWins ==
    (mode = "auto" /\ providers # << >> /\ providers[1] = "antigravity") =>
        /\ (fs.brain /\ fs.sessions # << >>) =>
               /\ AntigravityDetect(fs, "none") = Ret(TRUE)
               /\ IsSome(AntigravityCollect(fs, "none").v)
               /\ NewestIsBare => IsEmptyBundle(AntigravityCollect(fs, "none").v[1])
               /\ (pc = "Collecting" /\ idx = 1) =>
                      AntigravityCollect(fs, "none") \in CollectOutcomes("antigravity", fs)
        /\ \A k \in Positions :
               CollectedAt(k, 1) =>
                   /\ k = Len(trace)
                   /\ \A j \in Positions : trace[j].i = 1
                   /\ pc = "Collected"
                   /\ result = trace[k].b
                   /\ NewestIsBare => IsEmptyBundle(result[1])

(* getIntentContext ran over a brain directory whose newest session holds  *)
(* neither file: Antigravity's empty bundle was returned, Cursor and Aider *)
(* were not tried.                                                         *)
C26_Witness ==
    /\ mode = "auto"
    /\ providers = IntentContextProviders
    /\ pc = "Collected"
    /\ fs.sessions # << >>
    /\ NewestIsBare
    /\ IsSome(result)
    /\ IsEmptyBundle(result[1])
    /\ \A j \in Positions : trace[j].i = 1

====
